---- MODULE Spec2Model ----
(***************************************************************************)
(* Dataset analysis engine of the sales report generator:                  *)
(* utils/fileProcessing (processFile, detectColumnTypes,                   *)
(* analyzeDataQuality), services/aiAnalysis (detectTimeTrends,             *)
(* findCorrelations, identifyOutliers, generateInsights, analyzeDataset)   *)
(* and services/geminiAI (generateDataInsights).                           *)
(*                                                                         *)
(* A record (row) is a function from column keys to cells.  A key that the *)
(* object does not hold maps to Absent: row[key] reads undefined there,    *)
(* and Object.keys / Object.values / JSON.stringify skip the key.  A key   *)
(* held with the value undefined maps to Undefined.                        *)
(* Numbers are small integers; every quotient the source computes is kept  *)
(* as an exact fraction so that comparisons are the source's comparisons.  *)
(***************************************************************************)
EXTENDS Integers, Sequences, FiniteSets, TLC

VARIABLES data, given, op, now, columns, quality, info, outlierInfo, correlations,
          trend, insights, analysis, again, ai, store

vars == <<data, given, op, now, columns, quality, info, outlierInfo, correlations,
          trend, insights, analysis, again, ai, store>>

----------------------------------------------------------------------------
(* Bounds of the explored inputs *)

MaxRows == 3
MaxPairRows == 2
MaxLongRows == 6
CorrRows == 5
MaxDay == 24
TrendRows == 20
ShortRows == 5
MaxClock == 1
MaxTail == 2

(* Program constants *)

SampleLimit == 100
MinPoints == 5

----------------------------------------------------------------------------
(* JavaScript values *)

ColOrder == <<"a", "b", "c">>

Cols == {ColOrder[i] : i \in 1..Len(ColOrder)}

Num(n) == [t |-> "number", n |-> n, s |-> ""]

Str(s) == [t |-> "string", n |-> 0, s |-> s]

Bool(b) == [t |-> "boolean", n |-> IF b THEN 1 ELSE 0, s |-> ""]

Null == [t |-> "null", n |-> 0, s |-> ""]

Undefined == [t |-> "undefined", n |-> 0, s |-> ""]

Absent == [t |-> "absent", n |-> 0, s |-> ""]

(* row[key] *)
Get(row, key) == IF row[key] = Absent THEN Undefined ELSE row[key]

(* A computed JavaScript number: a finite value kept as the exact fraction  *)
(* v/d in lowest terms with d > 0, or NaN, Infinity, -Infinity.  NoValue is *)
(* the undefined the source reads past the end of an array or from an      *)
(* optional field that was never set.                                      *)
RECURSIVE Gcd(_, _)
Gcd(x, y) == IF y = 0 THEN x ELSE Gcd(y, x % y)

Abs(x) == IF x < 0 THEN -x ELSE x

Fin(x) == [k |-> "fin", v |-> x, d |-> 1]

NaN == [k |-> "NaN", v |-> 0, d |-> 1]

PosInfinity == [k |-> "Infinity", v |-> 0, d |-> 1]

NegInfinity == [k |-> "-Infinity", v |-> 0, d |-> 1]

NoValue == [k |-> "undefined", v |-> 0, d |-> 1]

IsFin(x) == x.k = "fin"

(* n/d for integers n, d with the IEEE results of a division by zero *)
Frac(n, d) ==
  IF d = 0 THEN (IF n = 0 THEN NaN ELSE IF n > 0 THEN PosInfinity ELSE NegInfinity)
  ELSE LET g == Gcd(Abs(n), Abs(d))
           sgn == IF d < 0 THEN -1 ELSE 1
       IN [k |-> "fin", v |-> (sgn * n) \div g, d |-> Abs(d) \div g]

Sign(x) ==
  CASE x.k = "Infinity"  -> 1
    [] x.k = "-Infinity" -> -1
    [] x.k = "fin"       -> (IF x.v > 0 THEN 1 ELSE IF x.v < 0 THEN -1 ELSE 0)
    [] OTHER             -> 0

IsNaN(x) == x.k \in {"NaN", "undefined"}

Signed(sg) == IF sg > 0 THEN PosInfinity ELSE IF sg < 0 THEN NegInfinity ELSE NaN

(* x + y *)
Add(x, y) ==
  IF IsNaN(x) \/ IsNaN(y) THEN NaN
  ELSE IF IsFin(x) /\ IsFin(y) THEN Frac(x.v * y.d + y.v * x.d, x.d * y.d)
  ELSE IF IsFin(x) THEN y
  ELSE IF IsFin(y) THEN x
  ELSE IF x = y THEN x ELSE NaN

(* x * y *)
Mul(x, y) ==
  IF IsNaN(x) \/ IsNaN(y) THEN NaN
  ELSE IF IsFin(x) /\ IsFin(y) THEN Frac(x.v * y.v, x.d * y.d)
  ELSE Signed(Sign(x) * Sign(y))

Neg(x) == Mul(Fin(-1), x)

(* x - y *)
Sub(x, y) == Add(x, Neg(y))

(* x / y *)
Div(x, y) ==
  IF IsNaN(x) \/ IsNaN(y) THEN NaN
  ELSE IF IsFin(x) /\ IsFin(y) THEN
         (IF y.v = 0 THEN Signed(Sign(x)) ELSE Frac(x.v * y.d, x.d * y.v))
  ELSE IF IsFin(y) THEN Signed(Sign(x) * (IF y.v < 0 THEN -1 ELSE 1))
  ELSE IF IsFin(x) THEN Fin(0)
  ELSE NaN

(* x < y; every comparison with NaN or undefined is false *)
Lt(x, y) ==
  IF IsNaN(x) \/ IsNaN(y) THEN FALSE
  ELSE IF IsFin(x) /\ IsFin(y) THEN x.v * y.d < y.v * x.d
  ELSE IF x = y THEN FALSE
  ELSE x.k = "-Infinity" \/ y.k = "Infinity"

Gt(x, y) == Lt(y, x)

Le(x, y) == (~IsNaN(x) /\ ~IsNaN(y)) /\ ~Lt(y, x)

Min2(x, y) == IF x <= y THEN x ELSE y

(* Number(s) for the strings of the model *)
NumericStrings == {"", "0", "1", "2", "3"}

StringToNumber(s) ==
  CASE s = ""  -> Fin(0)
    [] s = "0" -> Fin(0)
    [] s = "1" -> Fin(1)
    [] s = "2" -> Fin(2)
    [] s = "3" -> Fin(3)
    [] OTHER   -> NaN

(* Number(val) *)
ToNumber(val) ==
  CASE val.t = "number"    -> Fin(val.n)
    [] val.t = "boolean"   -> Fin(val.n)
    [] val.t = "null"      -> Fin(0)
    [] val.t = "string"    -> StringToNumber(val.s)
    [] OTHER               -> NaN

Digits == <<"0", "1", "2", "3", "4", "5", "6", "7", "8", "9">>

RECURSIVE NatToString(_)
NatToString(n) ==
  IF n < 10 THEN Digits[n + 1] ELSE NatToString(n \div 10) \o Digits[(n % 10) + 1]

(* The ISO string of day i of January 2024 *)
DayString(i) == "2024-01-" \o (IF i < 10 THEN "0" ELSE "") \o NatToString(i)

(* !isNaN(Date.parse(String(val))) on V8: ISO dates and small non-negative *)
(* integer numerals parse, booleans, words and the empty string do not.    *)
DateStrings == {DayString(i) : i \in 1..MaxDay} \cup {"2024-02-01", "0", "1", "2", "3"}

IsValidDate(val) ==
  CASE val.t = "number"  -> val.n >= 0
    [] val.t = "string"  -> val.s \in DateStrings
    [] OTHER             -> FALSE

----------------------------------------------------------------------------
(* Sequence helpers (Array.prototype.map / filter / reduce / sort) *)

(* values.reduce((sum, val) => sum + val, 0); the exact sum does not      *)
(* depend on the grouping, and halving keeps the recursion shallow on the  *)
(* 100 values of a sample                                                  *)
RECURSIVE SumSeq(_)
SumSeq(s) ==
  IF s = <<>> THEN Fin(0)
  ELSE IF Len(s) = 1 THEN Add(Fin(0), s[1])
  ELSE Add(SumSeq(SubSeq(s, 1, Len(s) \div 2)), SumSeq(SubSeq(s, Len(s) \div 2 + 1, Len(s))))

(* [...values].sort((a, b) => a - b) on finite numbers: the values below   *)
(* a pivot, the values equal to it and the values above it; taking the     *)
(* pivot from the middle keeps the recursion shallow on the 100 values of  *)
(* a sample                                                                *)
RECURSIVE SortAsc(_)
SortAsc(s) ==
  IF Len(s) < 2 THEN s
  ELSE LET pivot == s[(Len(s) + 1) \div 2]
       IN SortAsc(SelectSeq(s, LAMBDA v : Lt(v, pivot)))
          \o SelectSeq(s, LAMBDA v : ~Lt(v, pivot) /\ ~Lt(pivot, v))
          \o SortAsc(SelectSeq(s, LAMBDA v : Lt(pivot, v)))

Range(s) == {s[i] : i \in 1..Len(s)}

(* Object.keys(row): the keys the object holds, in insertion order *)
Keys(row) == SelectSeq(ColOrder, LAMBDA c : row[c] /= Absent)

(* Object.values(row) *)
Values(row) == [i \in 1..Len(Keys(row)) |-> row[Keys(row)[i]]]

(* array[i] with the source's 0-based index; undefined outside the array *)
At(s, i) == IF i >= 0 /\ i < Len(s) THEN s[i + 1] ELSE NoValue

(* Math.min(...values) and Math.max(...values) *)
RECURSIVE MathMin(_)
MathMin(s) ==
  IF s = <<>> THEN PosInfinity
  ELSE IF Len(s) = 1 THEN s[1]
  ELSE LET m == MathMin(SubSeq(s, Len(s) \div 2 + 1, Len(s)))
           h == MathMin(SubSeq(s, 1, Len(s) \div 2))
       IN IF Lt(m, h) THEN m ELSE h

RECURSIVE MathMax(_)
MathMax(s) ==
  IF s = <<>> THEN NegInfinity
  ELSE IF Len(s) = 1 THEN s[1]
  ELSE LET m == MathMax(SubSeq(s, Len(s) \div 2 + 1, Len(s)))
           h == MathMax(SubSeq(s, 1, Len(s) \div 2))
       IN IF Gt(m, h) THEN m ELSE h

MapSeq(s, F(_)) == [i \in 1..Len(s) |-> F(s[i])]

----------------------------------------------------------------------------
(* utils/fileProcessing: detectColumnTypes *)

ColumnTypes == {"numeric", "boolean", "datetime", "categorical", "text"}

(* typeof val === 'number' || (typeof val === 'string' && !isNaN(Number(val))) *)
IsNumberLike(val) ==
  \/ val.t = "number"
  \/ val.t = "string" /\ ~IsNaN(StringToNumber(val.s))

BooleanTokens == {"0", "1", "true", "false", "yes", "no", "y", "n"}

IsBooleanLike(val) ==
  \/ val.t = "boolean"
  \/ val.t = "number" /\ val.n \in {0, 1}
  \/ val.t = "string" /\ val.s \in BooleanTokens

(* val !== null && val !== undefined *)
NotNullish(val) == val /= Null /\ val /= Undefined

(* sample.map(row => row[colName]).filter(val => val !== null && val !== undefined) *)
ColumnValues(rows, colName) ==
  SelectSeq([i \in 1..Len(rows) |-> Get(rows[i], colName)], NotNullish)

(* The chain with the cardinality test moved in front of the numeric test *)
InferTypeCategoricalFirst(values, uniqueValues, sampleSize) ==
  IF 5 * uniqueValues < sampleSize /\ Len(values) > 0 THEN "categorical"
  ELSE IF \A i \in 1..Len(values) : IsNumberLike(values[i]) THEN "numeric"
  ELSE IF \A i \in 1..Len(values) : IsBooleanLike(values[i]) THEN "boolean"
  ELSE IF \A i \in 1..Len(values) : IsValidDate(values[i]) THEN "datetime"
  ELSE "text"

(* The if / else-if chain that determines the column type *)
InferType(values, uniqueValues, sampleSize) ==
  IF \A i \in 1..Len(values) : IsNumberLike(values[i]) THEN "numeric"
  ELSE IF \A i \in 1..Len(values) : IsBooleanLike(values[i]) THEN "boolean"
  ELSE IF \A i \in 1..Len(values) : IsValidDate(values[i]) THEN "datetime"
  ELSE IF 5 * uniqueValues < sampleSize /\ Len(values) > 0 THEN "categorical"
  ELSE "text"

(* The median without the even-length branch *)
MedianUpperMiddle(sorted) == At(sorted, Len(sorted) \div 2)

(* sorted.length % 2 === 0 ? (sorted[middle - 1] + sorted[middle]) / 2 : sorted[middle] *)
Median(sorted) ==
  LET middle == Len(sorted) \div 2
  IN IF Len(sorted) % 2 = 0
     THEN Div(Add(At(sorted, middle - 1), At(sorted, middle)), Fin(2))
     ELSE At(sorted, middle)

(* [sorted[floor(n * 0.25)], sorted[floor(n * 0.5)], sorted[floor(n * 0.75)]] *)
Quartiles(sorted) ==
  << At(sorted, Len(sorted) \div 4),
     At(sorted, Len(sorted) \div 2),
     At(sorted, (3 * Len(sorted)) \div 4) >>

(* sum of (val - mean)^2 / n: the square of stdDev *)
Variance(numericValues, mean) ==
  Div(SumSeq(MapSeq(numericValues, LAMBDA v : Mul(Sub(v, mean), Sub(v, mean)))),
      Fin(Len(numericValues)))

(* The DataColumn built for one column name *)
DetectColumn(sample, colName) ==
  LET values == ColumnValues(sample, colName)
      uniqueValues == Cardinality(Range(values))
      missingCount == Len(sample) - Len(values)
      type == InferType(values, uniqueValues, Len(sample))
      numericValues == MapSeq(values, ToNumber)
      sorted == SortAsc(numericValues)
      mean == Div(SumSeq(numericValues), Fin(Len(numericValues)))
      isNum == type = "numeric"
  IN [ name |-> colName,
       type |-> type,
       uniqueValues |-> uniqueValues,
       missingValues |-> missingCount,
       missingPercentage |-> Mul(Div(Fin(missingCount), Fin(Len(sample))), Fin(100)),
       min |-> IF isNum THEN MathMin(numericValues) ELSE NoValue,
       max |-> IF isNum THEN MathMax(numericValues) ELSE NoValue,
       mean |-> IF isNum THEN mean ELSE NoValue,
       median |-> IF isNum THEN Median(sorted) ELSE NoValue,
       stdDevSquared |-> IF isNum THEN Variance(numericValues, mean) ELSE NoValue,
       quartiles |-> IF isNum THEN Quartiles(sorted) ELSE <<>> ]

(* Every record taken into the sample *)
WholeDataset(rows, sampleSize) == rows

(* data.slice(0, sampleSize) *)
Sample(rows, sampleSize) == SubSeq(rows, 1, Min2(sampleSize, Len(rows)))

(* detectColumnTypes(data): the columns in insertion order, one per key of *)
(* the first record, computed on the first min(100, n) records             *)
detectColumnTypes(rows) ==
  IF Len(rows) = 0 THEN <<>>
  ELSE LET sampleSize == Min2(SampleLimit, Len(rows))
           sample == Sample(rows, sampleSize)
           columnNames == Keys(rows[1])
       IN [i \in 1..Len(columnNames) |-> DetectColumn(sample, columnNames[i])]

----------------------------------------------------------------------------
(* utils/fileProcessing: analyzeDataQuality *)

(* JSON.stringify of one cell value *)
JsonValue(val) ==
  CASE val.t = "number"  -> (IF val.n < 0 THEN "-" \o NatToString(-val.n) ELSE NatToString(val.n))
    [] val.t = "string"  -> "\"" \o val.s \o "\""
    [] val.t = "boolean" -> (IF val.n = 1 THEN "true" ELSE "false")
    [] OTHER             -> "null"

RECURSIVE JsonMembers(_, _)
JsonMembers(row, keys) ==
  IF keys = <<>> THEN ""
  ELSE "\"" \o Head(keys) \o "\":" \o JsonValue(row[Head(keys)])
       \o (IF Len(keys) > 1 THEN "," ELSE "") \o JsonMembers(row, Tail(keys))

(* JSON.stringify(row): a member for each held key whose value is not undefined *)
JSONstringify(row) ==
  "{" \o JsonMembers(row, SelectSeq(Keys(row), LAMBDA c : row[c] /= Undefined)) \o "}"

(* The test that detectColumnTypes uses: null and undefined only *)
IsNullish(value) == value = Null \/ value = Undefined

(* value === null || value === undefined || value === '' || value === 'null' *)
(* || value === 'undefined'                                                  *)
IsMissingValue(value) ==
  \/ value = Null
  \/ value = Undefined
  \/ value = Str("")
  \/ value = Str("null")
  \/ value = Str("undefined")

RECURSIVE SumNat(_)
SumNat(s) == IF s = <<>> THEN 0 ELSE Head(s) + SumNat(Tail(s))

CountSeq(s, P(_)) == Len(SelectSeq(s, P))

(* data.forEach(row => Object.values(row).forEach(value => ...)) *)
TotalMissingValues(rows) ==
  SumNat([i \in 1..Len(rows) |-> CountSeq(Values(rows[i]), IsMissingValue)])

(* Every row whose serialized form occurs more than once is counted *)
DuplicateRowsCountingAll(rows) ==
  Cardinality({i \in 1..Len(rows) :
     \E j \in 1..Len(rows) : j /= i /\ JSONstringify(rows[j]) = JSONstringify(rows[i])})

(* data.length - new Set(data.map(row => JSON.stringify(row))).size *)
DuplicateRows(rows) ==
  Len(rows) - Cardinality({JSONstringify(rows[i]) : i \in 1..Len(rows)})

(* q1 - 1.5 * iqr *)
LowerFence(q1, q3) == Sub(q1, Mul(Frac(3, 2), Sub(q3, q1)))

(* The upper fence with the factor 3 of the far-out rule *)
UpperFenceWide(q1, q3) == Add(q3, Mul(Fin(3), Sub(q3, q1)))

(* q3 + 1.5 * iqr *)
UpperFence(q1, q3) == Add(q3, Mul(Frac(3, 2), Sub(q3, q1)))

(* The rows one column adds to outlierCount *)
ColumnOutlierCount(rows, column) ==
  IF column.type = "numeric" /\ column.quartiles /= <<>>
  THEN LET lowerBound == LowerFence(column.quartiles[1], column.quartiles[3])
           upperBound == UpperFence(column.quartiles[1], column.quartiles[3])
           Out(row) == LET value == ToNumber(Get(row, column.name))
                       IN ~IsNaN(value) /\ (Lt(value, lowerBound) \/ Gt(value, upperBound))
       IN CountSeq(rows, Out)
  ELSE 0

analyzeDataQuality(rows) ==
  IF Len(rows) = 0
  THEN [missingValues |-> 0, duplicateRows |-> 0, outliers |-> 0]
  ELSE LET cols == detectColumnTypes(rows)
       IN [ missingValues |-> TotalMissingValues(rows),
            duplicateRows |-> DuplicateRows(rows),
            outliers |-> SumNat([i \in 1..Len(cols) |-> ColumnOutlierCount(rows, cols[i])]) ]

----------------------------------------------------------------------------
(* utils/fileProcessing: processFile *)

FileNames == { [base |-> "sales", ext |-> e] : e \in {".csv", ".xlsx", ".xls", ".tsv"} }

(* file.name.endsWith(suffix) *)
EndsWith(file, suffix) == file.ext = suffix

(* Object.values(row).some(val => val !== null && val !== undefined && val !== '') *)
NonEmptyRow(row) ==
  \E i \in 1..Len(Values(row)) :
     LET val == Values(row)[i] IN val /= Null /\ val /= Undefined /\ val /= Str("")

(* The filter without the test for the empty string *)
RemoveNullRows(rows) ==
  SelectSeq(rows, LAMBDA row : \E i \in 1..Len(Values(row)) :
                                  Values(row)[i] /= Null /\ Values(row)[i] /= Undefined)

(* data.filter(row => ...): remove empty rows *)
RemoveEmptyRows(rows) == SelectSeq(rows, NonEmptyRow)

NoInfo ==
  [ settled |-> "none", fileName |-> "", rowCount |-> 0, columnCount |-> 0,
    columns |-> <<>>, data |-> <<>>,
    dataQuality |-> [missingValues |-> 0, duplicateRows |-> 0, outliers |-> 0] ]

(* The DatasetInfo object literal *)
DatasetInfo(file, rows, cols, dataQuality) ==
  [ settled |-> "resolved",
    fileName |-> file.base \o file.ext,
    rowCount |-> Len(rows),
    columnCount |-> Len(cols),
    columns |-> cols,
    data |-> rows,
    dataQuality |-> dataQuality ]

(* processFile(file) where the parser yields the records parsed; the       *)
(* promise rejects for a name that is neither .csv, .xlsx nor .xls         *)
processFile(file, parsed) ==
  IF EndsWith(file, ".csv") \/ EndsWith(file, ".xlsx") \/ EndsWith(file, ".xls")
  THEN LET rows == RemoveEmptyRows(parsed)
       IN DatasetInfo(file, rows, detectColumnTypes(rows), analyzeDataQuality(rows))
  ELSE [NoInfo EXCEPT !.settled = "rejected", !.fileName = file.base \o file.ext]

----------------------------------------------------------------------------
(* services/aiAnalysis: identifyOutliers *)

(* data.map(row => row[colName]).filter(not null/undefined).map(Number) *)
NumericValues(rows, colName) == MapSeq(ColumnValues(rows, colName), ToNumber)

(* No minimum number of values *)
AlwaysEnough(values) == TRUE

(* if (values.length < 5) return *)
EnoughValues(values) == ~(Len(values) < MinPoints)

(* const val = Number(row[colName]); return val < lowerBound || val > upperBound *)
IsOutlier(row, colName, lowerBound, upperBound) ==
  LET val == ToNumber(Get(row, colName))
  IN Lt(val, lowerBound) \/ Gt(val, upperBound)

(* The entry of one numeric column; count = 0 stands for no entry *)
OutlierEntry(rows, colName) ==
  LET values == NumericValues(rows, colName)
      sorted == SortAsc(values)
      q1 == At(sorted, Len(sorted) \div 4)
      q3 == At(sorted, (3 * Len(sorted)) \div 4)
      lowerBound == LowerFence(q1, q3)
      upperBound == UpperFence(q1, q3)
      outliers == SelectSeq(rows, LAMBDA row : IsOutlier(row, colName, lowerBound, upperBound))
  IN [ name |-> colName,
       count |-> IF EnoughValues(values) THEN Len(outliers) ELSE 0,
       percentage |-> Mul(Div(Fin(Len(outliers)), Fin(Len(rows))), Fin(100)),
       boundaries |-> [lower |-> lowerBound, upper |-> upperBound],
       examples |-> SubSeq(outliers, 1, Min2(5, Len(outliers))) ]

(* identifyOutliers(data, columns): the entries of outlierInfo in insertion *)
(* order, one for each numeric column that has outliers                     *)
identifyOutliers(rows, cols) ==
  LET numericColumns == SelectSeq(cols, LAMBDA col : col.type = "numeric")
      entries == [i \in 1..Len(numericColumns) |-> OutlierEntry(rows, numericColumns[i].name)]
  IN SelectSeq(entries, LAMBDA e : e.count > 0)

----------------------------------------------------------------------------
(* services/aiAnalysis: findCorrelations *)

(* rows where both cells are neither null nor undefined *)
Pairs(rows, col1, col2) ==
  LET both == SelectSeq(rows, LAMBDA row : NotNullish(Get(row, col1))
                                           /\ NotNullish(Get(row, col2)))
  IN [i \in 1..Len(both) |-> [x |-> ToNumber(Get(both[i], col1)),
                              y |-> ToNumber(Get(both[i], col2))]]

(* sumXY - sumX * sumY: the count of pairs left out *)
NumeratorWithoutCount(pairs) ==
  LET sumX == SumSeq(MapSeq(pairs, LAMBDA p : p.x))
      sumY == SumSeq(MapSeq(pairs, LAMBDA p : p.y))
      sumXY == SumSeq(MapSeq(pairs, LAMBDA p : Mul(p.x, p.y)))
  IN Sub(sumXY, Mul(sumX, sumY))

(* n * sumXY - sumX * sumY *)
Numerator(pairs) ==
  LET n == Fin(Len(pairs))
      sumX == SumSeq(MapSeq(pairs, LAMBDA p : p.x))
      sumY == SumSeq(MapSeq(pairs, LAMBDA p : p.y))
      sumXY == SumSeq(MapSeq(pairs, LAMBDA p : Mul(p.x, p.y)))
  IN Sub(Mul(n, sumXY), Mul(sumX, sumY))

(* (n * sumX2 - sumX * sumX) * (n * sumY2 - sumY * sumY): the square of   *)
(* denominator                                                             *)
DenominatorSquared(pairs) ==
  LET n == Fin(Len(pairs))
      sumX == SumSeq(MapSeq(pairs, LAMBDA p : p.x))
      sumY == SumSeq(MapSeq(pairs, LAMBDA p : p.y))
      sumX2 == SumSeq(MapSeq(pairs, LAMBDA p : Mul(p.x, p.x)))
      sumY2 == SumSeq(MapSeq(pairs, LAMBDA p : Mul(p.y, p.y)))
  IN Mul(Sub(Mul(n, sumX2), Mul(sumX, sumX)), Sub(Mul(n, sumY2), Mul(sumY, sumY)))

(* Math.abs(numerator / Math.sqrt(dsq)) > p / q, decided on the squares;   *)
(* false when the quotient is NaN                                          *)
AbsCorrelationAbove(numerator, dsq, p, q) ==
  /\ IsFin(numerator) /\ IsFin(dsq) /\ Sign(dsq) > 0
  /\ Gt(Mul(Mul(numerator, numerator), Fin(q * q)), Mul(dsq, Fin(p * p)))

(* The test with >= in place of > *)
SignificantOrEqual(numerator, dsq) ==
  /\ IsFin(numerator) /\ IsFin(dsq) /\ Sign(dsq) > 0
  /\ ~Lt(Mul(Mul(numerator, numerator), Fin(4)), dsq)

(* Math.abs(correlation) > 0.5 *)
Significant(numerator, dsq) == AbsCorrelationAbove(numerator, dsq, 1, 2)

(* correlation.toFixed(2), in hundredths with the sign of the coefficient: *)
(* the nearest multiple of 0.01, the larger one of two equally near        *)
ToFixed2(numerator, dsq) ==
  LET S == {k \in 0..100 : k = 0 \/ ~Lt(Mul(Mul(numerator, numerator), Fin(40000)),
                                        Mul(dsq, Fin((2 * k - 1) * (2 * k - 1))))}
      k == CHOOSE m \in S : \A o \in S : o <= m
  IN Sign(numerator) * k

(* The object pushed for one pair of columns *)
CorrelationEntry(col1, col2, numerator, dsq) ==
  [ columns |-> <<col1, col2>>,
    correlation |-> ToFixed2(numerator, dsq),
    strength |-> IF AbsCorrelationAbove(numerator, dsq, 4, 5) THEN "strong" ELSE "moderate",
    direction |-> IF Sign(numerator) > 0 THEN "positive" ELSE "negative" ]

(* The pair is pushed: enough points, denominator !== 0, |r| > 0.5 *)
PairReported(pairs) ==
  /\ ~(Len(pairs) < MinPoints)
  /\ ~(DenominatorSquared(pairs) = Fin(0))
  /\ Significant(Numerator(pairs), DenominatorSquared(pairs))

RECURSIVE InsertByAbs(_, _)
InsertByAbs(e, s) ==
  IF s = <<>> THEN <<e>>
  ELSE IF Abs(e.correlation) > Abs(Head(s).correlation) THEN <<e>> \o s
  ELSE <<Head(s)>> \o InsertByAbs(e, Tail(s))

(* The list as pushed, in the order of the loops *)
Unsorted(s) == s

(* correlations.sort((a, b) => Math.abs(Number(b.correlation)) -            *)
(* Math.abs(Number(a.correlation))): stable, descending                     *)
RECURSIVE SortByStrength(_)
SortByStrength(s) ==
  IF s = <<>> THEN <<>>
  ELSE InsertByAbs(s[Len(s)], SortByStrength(SubSeq(s, 1, Len(s) - 1)))

(* The (i, j) index pairs with i < j in the order of the two nested loops *)
RECURSIVE IndexPairs(_, _, _)
IndexPairs(i, j, n) ==
  IF i > n THEN <<>>
  ELSE IF j > n THEN IndexPairs(i + 1, i + 2, n)
  ELSE <<(<<i, j>>)>> \o IndexPairs(i, j + 1, n)

findCorrelations(rows, cols) ==
  IF Len(rows) = 0 THEN <<>>
  ELSE LET numericColumns == SelectSeq(cols, LAMBDA col : col.type = "numeric")
           ij == IndexPairs(1, 2, Len(numericColumns))
           kept == SelectSeq(ij, LAMBDA p :
                     PairReported(Pairs(rows, numericColumns[p[1]].name,
                                              numericColumns[p[2]].name)))
           Entry(p) == LET col1 == numericColumns[p[1]].name
                           col2 == numericColumns[p[2]].name
                           pairs == Pairs(rows, col1, col2)
                       IN CorrelationEntry(col1, col2, Numerator(pairs),
                                           DenominatorSquared(pairs))
       IN SortByStrength(MapSeq(kept, Entry))

----------------------------------------------------------------------------
(* services/aiAnalysis: detectTimeTrends *)

(* new Date(val).getTime() up to an increasing map: the day of January     *)
(* 2024 for the day strings, earlier ranks for the numerals that V8 reads  *)
(* as 2000 and 2001 and for numbers (milliseconds after 1970); NaN for a   *)
(* value that is no date                                                   *)
GetTime(val) ==
  CASE val.t = "string" /\ (\E i \in 1..MaxDay : val.s = DayString(i))
         -> Fin(CHOOSE i \in 1..MaxDay : val.s = DayString(i))
    [] val = Str("2024-02-01") -> Fin(32)
    [] val.t = "string" /\ val.s \in {"0", "1", "2", "3"}
         -> Fin(StringToNumber(val.s).v - 9000)
    [] val.t \in {"number", "boolean", "null"} -> Fin(val.n - 1000000)
    [] OTHER -> NaN

(* The comparator dateA.getTime() - dateB.getTime() is negative *)
Earlier(rowA, rowB, dateColumn) ==
  Lt(Sub(GetTime(Get(rowA, dateColumn)), GetTime(Get(rowB, dateColumn))), Fin(0))

RECURSIVE InsertByDate(_, _, _)
InsertByDate(row, s, dateColumn) ==
  IF s = <<>> THEN <<row>>
  ELSE IF Earlier(row, Head(s), dateColumn) THEN <<row>> \o s
  ELSE <<Head(s)>> \o InsertByDate(row, Tail(s), dateColumn)

(* [...data].sort((a, b) => dateA.getTime() - dateB.getTime()): ascending  *)
(* and stable.  Defined for rows whose dates are all valid; with a NaN     *)
(* comparison the order is implementation-defined.                         *)
RECURSIVE SortByDate(_, _)
SortByDate(rows, dateColumn) ==
  IF rows = <<>> THEN <<>>
  ELSE InsertByDate(rows[Len(rows)], SortByDate(SubSeq(rows, 1, Len(rows) - 1), dateColumn),
                    dateColumn)

(* The array sorted in place: what data.sort(...) without the copy leaves *)
SortedInPlace(array, sorted) == sorted

(* [...data]: the sort runs on a copy and the caller's array keeps its order *)
CallerArrayAfterSort(array, sorted) == array

(* values.map(...) minus the first and last entry, which are null *)
(* A 2-point average: one entry for every pair of neighbours *)
TwoPointAverage(values) ==
  IF Len(values) < 2 THEN <<>>
  ELSE [i \in 1..(Len(values) - 1) |-> Div(Add(values[i], values[i + 1]), Fin(2))]

MovingAverage(values) ==
  IF Len(values) < 3 THEN <<>>
  ELSE [i \in 1..(Len(values) - 2) |->
          Div(Add(Add(values[i], values[i + 1]), values[i + 2]), Fin(3))]

(* ((lastAvg - firstAvg) / firstAvg) * 100 *)
PercentChange(firstAvg, lastAvg) == Mul(Div(Sub(lastAvg, firstAvg), firstAvg), Fin(100))

(* The direction with the sign of the change alone *)
TrendDirectionBySign(percentChange) ==
  IF Gt(percentChange, Fin(0)) THEN "increasing"
  ELSE IF Lt(percentChange, Fin(0)) THEN "decreasing"
  ELSE "stable"

(* if (percentChange > 10) ... else if (percentChange < -10) ... *)
TrendDirection(percentChange) ==
  IF Gt(percentChange, Fin(10)) THEN "increasing"
  ELSE IF Lt(percentChange, Fin(-10)) THEN "decreasing"
  ELSE "stable"

(* The pairs of adjacent differences of opposite sign *)
SignChanges(values) ==
  LET diffs == [i \in 1..(Len(values) - 1) |-> Sub(values[i + 1], values[i])]
  IN Cardinality({i \in 2..Len(diffs) :
        \/ Gt(diffs[i], Fin(0)) /\ Lt(diffs[i - 1], Fin(0))
        \/ Lt(diffs[i], Fin(0)) /\ Gt(diffs[i - 1], Fin(0))})

(* signChanges > diffs.length * 0.5: a higher threshold *)
SeasonalAboveHalf(signChanges, diffCount) == 2 * signChanges > diffCount

(* signChanges > diffs.length * 0.4 *)
Seasonal(signChanges, diffCount) == 5 * signChanges > 2 * diffCount

(* x.toFixed(2) read back as a number: the nearest hundredth, the one      *)
(* farther from zero of two equally near; NaN and the infinities print as  *)
(* themselves                                                              *)
RoundHundredths(x) ==
  IF ~IsFin(x) THEN x
  ELSE Frac(Sign(x) * ((200 * Abs(x.v) + x.d) \div (2 * x.d)), 100)

(* return null *)
NoTrend ==
  [ found |-> FALSE, trendDirection |-> "", percentChange |-> NoValue,
    seasonality |-> FALSE, movingAverage |-> <<>> ]

(* sortedData.map(item => Number(item[valueColumn])) *)
ValuesOf(sortedData, valueColumn) ==
  [i \in 1..Len(sortedData) |-> ToNumber(Get(sortedData[i], valueColumn))]

(* The average of a slice: its sum from 0 divided by its length *)
Average(slice) == Div(SumSeq(slice), Fin(Len(slice)))

(* firstAvg of values.slice(0, Math.floor(values.length / 4)) *)
FirstAvg(values) == Average(SubSeq(values, 1, Len(values) \div 4))

(* lastAvg of values.slice(Math.floor(values.length * 3 / 4)) *)
LastAvg(values) == Average(SubSeq(values, ((3 * Len(values)) \div 4) + 1, Len(values)))

(* The object returned for the values and their percentChange *)
TrendOf(values, percentChange) ==
  [ found |-> TRUE,
    trendDirection |-> TrendDirection(percentChange),
    percentChange |-> RoundHundredths(percentChange),
    seasonality |-> Seasonal(SignChanges(values), Len(values) - 1),
    movingAverage |-> MovingAverage(values) ]

(* The body of the try block from the values on *)
TrendOfValues(values) == TrendOf(values, PercentChange(FirstAvg(values), LastAvg(values)))

detectTimeTrends(rows, dateColumn, valueColumn) ==
  IF Len(rows) < MinPoints THEN NoTrend
  ELSE TrendOfValues(ValuesOf(SortByDate(rows, dateColumn), valueColumn))

----------------------------------------------------------------------------
(* services/aiAnalysis: generateInsights and analyzeDataset *)

(* The (dateCol, numCol) pairs in the order of the two nested forEach *)
TrendPairs(dateColumns, numericColumns) ==
  [k \in 1..(Len(dateColumns) * Len(numericColumns)) |->
     << dateColumns[((k - 1) \div Len(numericColumns)) + 1].name,
        numericColumns[((k - 1) % Len(numericColumns)) + 1].name >>]

(* { dateColumn, valueColumn, ...trend } *)
TrendEntry(dateCol, numCol, t) ==
  [ dateColumn |-> dateCol, valueColumn |-> numCol, found |-> t.found,
    trendDirection |-> t.trendDirection, percentChange |-> t.percentChange,
    seasonality |-> t.seasonality, movingAverage |-> t.movingAverage ]

TimeTrends(rows, cols) ==
  LET dateColumns == SelectSeq(cols, LAMBDA col : col.type = "datetime")
      numericColumns == SelectSeq(cols, LAMBDA col : col.type = "numeric")
      pairs == TrendPairs(dateColumns, numericColumns)
  IN SelectSeq([k \in 1..Len(pairs) |->
                  TrendEntry(pairs[k][1], pairs[k][2],
                             detectTimeTrends(rows, pairs[k][1], pairs[k][2]))],
               LAMBDA t : t.found)

(* A recommendation: its type and the parts of its message that vary *)
Recommendation(type, names, direction, percentChange) ==
  [type |-> type, names |-> names, trendDirection |-> direction, percentChange |-> percentChange]

(* Math.abs(parseFloat(trend.percentChange)) > 10: a lower threshold *)
SignificantAboveTen(t) == Gt(t.percentChange, Fin(10)) \/ Lt(t.percentChange, Fin(-10))

(* Math.abs(parseFloat(trend.percentChange)) > 20 *)
SignificantTrend(t) == Gt(t.percentChange, Fin(20)) \/ Lt(t.percentChange, Fin(-20))

Recommendations(corrs, trends, outliers) ==
  LET significant == SelectSeq(trends, SignificantTrend)
      seasonal == SelectSeq(trends, LAMBDA t : t.seasonality)
  IN (IF Len(corrs) > 0
      THEN <<Recommendation("correlation", corrs[1].columns, "", NoValue)>> ELSE <<>>)
     \o (IF Len(significant) > 0
         THEN <<Recommendation("trend", <<significant[1].valueColumn>>,
                               significant[1].trendDirection, significant[1].percentChange)>>
         ELSE <<>>)
     \o (IF Len(seasonal) > 0
         THEN <<Recommendation("seasonality", <<seasonal[1].valueColumn>>, "", NoValue)>>
         ELSE <<>>)
     \o (IF Len(outliers) > 0
         THEN <<Recommendation("outliers", [k \in 1..Len(outliers) |-> outliers[k].name],
                               "", NoValue)>>
         ELSE <<>>)

NoInsights == [timeTrends |-> <<>>, correlations |-> <<>>, outliers |-> <<>>,
               recommendations |-> <<>>]

(* generateInsights(data, datasetInfo) with cols the columns of datasetInfo *)
(* The insights object with its recommendations *)
Insights(corrs, trends, outliers) ==
  [ timeTrends |-> trends,
    correlations |-> corrs,
    outliers |-> outliers,
    recommendations |-> Recommendations(corrs, trends, outliers) ]

generateInsights(rows, cols) ==
  IF Len(rows) = 0 THEN NoInsights
  ELSE Insights(findCorrelations(rows, cols), TimeTrends(rows, cols),
                identifyOutliers(rows, cols))

(* { insights: generateInsights(data, datasetInfo), timestamp: new Date().toISOString() } *)
analyzeDataset(rows, cols, time) ==
  [insights |-> generateInsights(rows, cols), timestamp |-> time]

----------------------------------------------------------------------------
(* services/geminiAI: GeminiAIService.generateDataInsights *)

(* What the generative service does with a request: it answers with a JSON *)
(* array of insights, with a JSON array none of whose items is an insight, *)
(* with text whose bracketed part is not JSON, with prose, with the empty  *)
(* string, it fails, or it never answers                                   *)
Services == {"insights", "no valid items", "broken JSON", "prose", "empty", "throws", "silent"}

(* parseAIResponse(text): the titles of the insights it returns *)
parseAIResponse(reply) ==
  CASE reply = "insights" -> <<"Insight of the model">>
    [] reply = "prose"    -> <<"AI Analysis Result">>
    [] OTHER              -> <<>>

(* The titles pushed when the general recommendation is left out *)
TitlesWithoutExploration(cols) ==
  <<"Dataset Overview", "Data Quality Assessment">>
  \o (IF \E k \in 1..Len(cols) : cols[k].type = "numeric"
      THEN <<"Statistical Analysis Opportunities">> ELSE <<>>)
  \o (IF \E k \in 1..Len(cols) : cols[k].type = "categorical"
      THEN <<"Categorical Data Insights">> ELSE <<>>)
  \o (IF \E k \in 1..Len(cols) : cols[k].type = "datetime"
      THEN <<"Time Series Analysis Potential">> ELSE <<>>)

(* The titles pushed inside the try block of generateFallbackInsights *)
FallbackTitles(cols) ==
  LET Has(type) == \E k \in 1..Len(cols) : cols[k].type = type
      core == <<"Dataset Overview", "Data Quality Assessment">>
              \o (IF Has("numeric") THEN <<"Statistical Analysis Opportunities">> ELSE <<>>)
              \o (IF Has("categorical") THEN <<"Categorical Data Insights">> ELSE <<>>)
              \o (IF Has("datetime") THEN <<"Time Series Analysis Potential">> ELSE <<>>)
  IN IF Len(core) < 3 THEN core \o <<"Data Exploration Recommendation">> ELSE core

(* generateFallbackInsights(data, columns, datasetInfo): data.length throws *)
(* for data that is null, in the try block and again in the catch block;    *)
(* columns.length throws for columns that are null, in the try block only   *)
generateFallbackInsights(dataIsNull, columnsAreNull, cols) ==
  IF dataIsNull THEN [threw |-> TRUE, list |-> <<>>]
  ELSE IF columnsAreNull THEN [threw |-> FALSE, list |-> <<"Dataset Loaded Successfully">>]
  ELSE [threw |-> FALSE, list |-> SubSeq(FallbackTitles(cols), 1, Min2(5, Len(FallbackTitles(cols))))]

(* return this.generateFallbackInsights(data, columns, datasetInfo): the   *)
(* promise resolves with the list, or rejects when the fallback throws     *)
ReturnFallback(call, cols) ==
  LET fallback == generateFallbackInsights(call.dataIsNull, call.columnsAreNull, cols)
  IN IF fallback.threw
     THEN [pc |-> "rejected", result |-> [kind |-> "none", list |-> <<>>]]
     ELSE [pc |-> "resolved", result |-> [kind |-> "fallback", list |-> fallback.list]]

(* if (!data || !Array.isArray(data) || data.length === 0) throw ...;       *)
(* if (!columns || !Array.isArray(columns) || columns.length === 0) throw   *)
InputsValid(call, rows, cols) ==
  /\ ~call.dataIsNull /\ Len(rows) > 0
  /\ ~call.columnsAreNull /\ Len(cols) > 0

----------------------------------------------------------------------------
(* Record sequences handed to the engine *)

RowOf(ca, cb) == [c \in Cols |-> CASE c = "a" -> ca [] c = "b" -> cb [] OTHER -> Absent]

(* d is a sequence of lo..hi records with one column "a" of the cells *)
OneColumn(d, cells, lo, hi) ==
  \E n \in lo..hi : \E f \in [1..n -> cells] :
     d = [i \in 1..n |-> RowOf(f[i], Absent)]

(* d is a sequence of lo..hi records with two columns "a" and "b" *)
TwoColumns(d, cellsA, cellsB, lo, hi) ==
  \E n \in lo..hi : \E f \in [1..n -> cellsA \X cellsB] :
     d = [i \in 1..n |-> RowOf(f[i][1], f[i][2])]

OfNumbers(s) == [i \in 1..Len(s) |-> RowOf(Num(s[i]), Absent)]

MixedCells ==
  { Absent, Undefined, Null, Num(1), Num(2), Str(""), Str("null"), Str("1"), Str("abc"),
    Str("yes"), Bool(TRUE), Str("2024-01-01") }

PairCellsA == {Absent, Undefined, Null, Str(""), Num(1)}

PairCellsB == {Absent, Str("undefined"), Str("x"), Num(1)}

LongCells == {Num(0), Num(10), Str("abc")}

OfPairs(xs, ys) == [i \in 1..Len(xs) |-> RowOf(xs[i], ys[i])]

Nums(s) == [i \in 1..Len(s) |-> Num(s[i])]

RowOf3(ca, cb, cc) == [c \in Cols |-> CASE c = "a" -> ca [] c = "b" -> cb [] OTHER -> cc]

Day(i) == Str(DayString(i))

ExampleData ==
  { OfNumbers(<<1, 2, 3, 4, 5>>),
    OfNumbers(<<1, 2, 3, 4, 5, 100>>),
    OfNumbers(<<1, 2, 3, 4, 5, 6, 7, 8, 9, 1>>),
    [i \in 1..3 |-> RowOf(Str(<<"1", "2", "3">>[i]), Absent)],
    OfPairs(Nums(<<1, 2, 3, 4, 5>>), Nums(<<2, 4, 6, 8, 10>>)),
    OfPairs(Nums(<<1, 1, 1, 1, 2, 2>>), Nums(<<1, 1, 2, 2, 1, 1>>)),
    OfPairs(Nums(<<1, 2, 3, 4, 5>>), <<Num(2), Num(4), Str("abc"), Num(8), Num(10)>>) }

(* Six rows with one cell that is no number, and the same rows with that   *)
(* cell null                                                               *)
UnparseableExample ==
  OfPairs(Nums(<<1, 2, 3, 4, 5, 6>>), <<Num(2), Num(4), Str("abc"), Num(8), Num(10), Num(12)>>)

MissingExample ==
  OfPairs(Nums(<<1, 2, 3, 4, 5, 6>>), <<Num(2), Num(4), Null, Num(8), Num(10), Num(12)>>)

(* A date column, a zig-zag value column that ends in 5, and its copy *)
RecommendationExample ==
  [i \in 1..6 |-> RowOf3(Day(i), Num(<<1, 2, 1, 2, 1, 5>>[i]), Num(<<1, 2, 1, 2, 1, 5>>[i]))]

(* The cell of record i in the first records of a large file: numbers,     *)
(* numbers with gaps, days, flags or a few labels                          *)
HeadCell(variant, i) ==
  CASE variant = "numbers" -> Num(1 + (i % 5))
    [] variant = "days"    -> Day(1 + (i % 5))
    [] variant = "flags"   -> Bool(i % 2 = 0)
    [] variant = "gaps"    -> (IF i % 10 = 0 THEN Null ELSE Num(1 + (((i % 10) - 1) % 3)))
    [] OTHER               -> Str(IF i % 2 = 0 THEN "yes" ELSE "abc")

(* Records that follow the first ones *)
TailRows == {RowOf(Num(7), Absent), RowOf(Str("abc"), Absent), RowOf(Null, Num(1))}

Tails == UNION {[1..m -> TailRows] : m \in 0..MaxTail}

(* A file of more records than are sampled *)
LargeData(d) ==
  \E variant \in {"numbers", "gaps", "days", "flags", "labels"} : \E tail \in Tails :
     d = [i \in 1..SampleLimit |-> RowOf(HeadCell(variant, i), Absent)] \o tail

(* Sheets and CSV files of mixed content *)
FileData(d) ==
  \/ OneColumn(d, MixedCells, 0, MaxRows)
  \/ TwoColumns(d, PairCellsA, PairCellsB, 1, MaxPairRows)
  \/ OneColumn(d, LongCells, 4, MaxLongRows)
  \/ d \in ExampleData

(* Three numeric columns: a counter and two columns of zeros and ones *)
ThreeNumeric(d) ==
  \E f \in [1..CorrRows -> {0, 1} \X {0, 1}] :
     d = [i \in 1..CorrRows |-> RowOf3(Num(i), Num(f[i][1]), Num(f[i][2]))]

(* Two columns with y = slope * x + intercept *)
Linear(d) ==
  \E xs \in [1..CorrRows -> {0, 1, 3}] : \E slope \in {1, 2} : \E intercept \in {-2, 0} :
     d = [i \in 1..CorrRows |-> RowOf(Num(xs[i]), Num(slope * xs[i] + intercept))]

(* Numeric tables for the insight functions *)
InsightData(d) ==
  \/ OneColumn(d, LongCells \cup {Null}, 4, MaxLongRows)
  \/ TwoColumns(d, {Num(1), Num(2)}, {Num(1), Num(3), Null}, CorrRows, CorrRows)
  \/ ThreeNumeric(d)
  \/ Linear(d)
  \/ d \in ExampleData \cup {UnparseableExample, MissingExample}

(* A date column in ascending or descending row order and a value column   *)
(* that rises by step along the dates, every day or every fifth day        *)
LongTrend(d) ==
  \E n \in TrendRows..(TrendRows + 1) : \E base \in {-1000, -30, -2, 0, 1, 100, 1000} : \E step \in {0, 1, 5} :
  \E stairs, reversed \in BOOLEAN :
     d = [i \in 1..n |->
            LET k == IF reversed THEN n + 1 - i ELSE i
            IN RowOf(Day(k), Num(base + step * (IF stairs THEN (k - 1) \div 5 ELSE k - 1)))]

(* A date column (ascending, descending, or one day for every row), a value *)
(* column over {0, 1, 2} and an optional second value column                *)
ShortTrend(d) ==
  \E vals \in [1..ShortRows -> {0, 1, 2}] :
  \E order \in {"ascending", "descending", "same day"} :
  \E second \in {"none", "flat", "ramp"} :
     d = [i \in 1..ShortRows |->
            LET k == CASE order = "ascending" -> i
                       [] order = "descending" -> ShortRows + 1 - i
                       [] OTHER -> 1
            IN RowOf3(Day(k), Num(vals[i]),
                      CASE second = "none" -> Absent
                        [] second = "flat" -> Num(1)
                        [] OTHER -> Num(i))]

(* Fewer rows than any statistic needs *)
FewRows(d) ==
  \E n \in 0..(MinPoints - 1) : \E f \in [1..n -> {1, 2} \X {0, 10}] :
     d = [i \in 1..n |-> RowOf(Day(f[i][1]), Num(f[i][2]))]

(* Dated tables for detectTimeTrends and generateInsights *)
TrendData(d) ==
  \/ LongTrend(d)
  \/ ShortTrend(d)
  \/ FewRows(d)
  \/ d = RecommendationExample

NoQuality == [missingValues |-> 0, duplicateRows |-> 0, outliers |-> 0]

NoCall == [dateColumn |-> "", valueColumn |-> "", result |-> NoTrend]

NoAnalysis == [insights |-> NoInsights, timestamp |-> 0]

NoRun == [fn |-> "none", out |-> <<>>]

(* The initial state of the data slice, with the state of the upload     *)
(* component: nothing loaded, no upload under way                         *)
NoStore ==
  [ rawData |-> [null |-> TRUE, rows |-> <<>>],
    datasetInfo |-> [null |-> TRUE, info |-> NoInfo],
    isLoading |-> FALSE,
    error |-> [null |-> TRUE, message |-> ""],
    uploadStatus |-> "idle",
    pc |-> "idle",
    settled |-> NoInfo,
    before |-> [rawData |-> [null |-> TRUE, rows |-> <<>>],
                datasetInfo |-> [null |-> TRUE, info |-> NoInfo]],
    uploads |-> 0 ]

(* No call of generateDataInsights is under way *)
Idle ==
  [ pc |-> "idle", configured |-> FALSE, service |-> "silent",
    dataIsNull |-> FALSE, columnsAreNull |-> FALSE,
    result |-> [kind |-> "none", list |-> <<>>] ]

----------------------------------------------------------------------------
(* State machine: a record sequence is given, one engine function runs on  *)
(* it and then runs a second time                                          *)

Start ==
  /\ given = data
  /\ op = "none"
  /\ now = 0
  /\ columns = <<>>
  /\ quality = NoQuality
  /\ info = NoInfo
  /\ outlierInfo = <<>>
  /\ correlations = <<>>
  /\ trend = NoCall
  /\ insights = NoInsights
  /\ analysis = NoAnalysis
  /\ again = NoRun
  /\ store = NoStore
  /\ ai = Idle

Init == FileData(data) /\ Start

InitInsights == InsightData(data) /\ Start

InitTrends == TrendData(data) /\ Start

InitSample == LargeData(data) /\ Start

DetectColumnTypes ==
  /\ op = "none"
  /\ op' = "detectColumnTypes"
  /\ columns' = detectColumnTypes(data)
  /\ UNCHANGED <<data, given, now, quality, info, outlierInfo, correlations,
                 trend, insights, analysis, again, ai, store>>

AnalyzeDataQuality ==
  /\ op = "none"
  /\ op' = "analyzeDataQuality"
  /\ quality' = analyzeDataQuality(data)
  /\ UNCHANGED <<data, given, now, columns, info, outlierInfo, correlations,
                 trend, insights, analysis, again, ai, store>>

ProcessFile ==
  /\ op = "none"
  /\ \E file \in FileNames :
       /\ info' = processFile(file, data)
       /\ op' = "processFile"
  /\ UNCHANGED <<data, given, now, columns, quality, outlierInfo, correlations,
                 trend, insights, analysis, again, ai, store>>

(* InsightsPanel and generateInsights pass the columns of the dataset info *)
IdentifyOutliers ==
  /\ op = "none"
  /\ op' = "identifyOutliers"
  /\ columns' = detectColumnTypes(data)
  /\ outlierInfo' = identifyOutliers(data, detectColumnTypes(data))
  /\ UNCHANGED <<data, given, now, quality, info, correlations,
                 trend, insights, analysis, again, ai, store>>

(* Every column marked numeric: a column set the caller is free to pass *)
AllNumeric(cols) == [i \in 1..Len(cols) |-> [cols[i] EXCEPT !.type = "numeric"]]

FindCorrelations ==
  /\ op = "none"
  /\ \E cols \in {detectColumnTypes(data), AllNumeric(detectColumnTypes(data))} :
       /\ columns' = cols
       /\ correlations' = findCorrelations(data, cols)
  /\ op' = "findCorrelations"
  /\ UNCHANGED <<data, given, now, quality, info, outlierInfo,
                 trend, insights, analysis, again, ai, store>>

(* Every date of the column is valid, so the comparator never yields NaN *)
DatesValid(rows, dateColumn) ==
  \A i \in 1..Len(rows) : ~IsNaN(GetTime(Get(rows[i], dateColumn)))

(* detectTimeTrends(data, dateCol, numCol) for two column names of the caller *)
DetectTimeTrends ==
  /\ op = "none"
  /\ \E dateCol \in Cols : \E numCol \in Cols \ {dateCol} :
       /\ Len(data) < MinPoints \/ DatesValid(data, dateCol)
       /\ trend' = [ dateColumn |-> dateCol, valueColumn |-> numCol,
                     result |-> detectTimeTrends(data, dateCol, numCol) ]
       /\ data' = CallerArrayAfterSort(data, SortByDate(data, dateCol))
  /\ op' = "detectTimeTrends"
  /\ UNCHANGED <<given, now, columns, quality, info, outlierInfo, correlations,
                 insights, analysis, again, ai, store>>

(* The first column marked datetime and the others numeric *)
DateFirst(cols) ==
  [i \in 1..Len(cols) |-> [cols[i] EXCEPT !.type = IF i = 1 THEN "datetime" ELSE "numeric"]]

(* No sort of the run meets a NaN: the values of the numeric columns are   *)
(* numbers and the dates of the datetime columns are valid, or the rows    *)
(* are too few for any sort to run                                         *)
SortsDefined(rows, cols) ==
  \/ Len(rows) < MinPoints
  \/ \A k \in 1..Len(cols) :
       /\ cols[k].type = "numeric" =>
            \A i \in 1..Len(NumericValues(rows, cols[k].name)) :
               IsFin(NumericValues(rows, cols[k].name)[i])
       /\ cols[k].type = "datetime" => DatesValid(rows, cols[k].name)

(* The column sets handed to generateInsights: the inferred one and two    *)
(* retyped ones                                                            *)
ColumnSets(rows) ==
  {cols \in {detectColumnTypes(rows), AllNumeric(detectColumnTypes(rows)),
             DateFirst(detectColumnTypes(rows))} : SortsDefined(rows, cols)}

(* The caller's array after the calls of detectTimeTrends: they sort when  *)
(* there are a datetime and a numeric column and at least five records,    *)
(* the last of them by the last datetime column                            *)
DataAfterTrends(rows, cols) ==
  IF \A k \in 1..Len(cols) : cols[k].type /= "datetime" THEN rows
  ELSE IF \A k \in 1..Len(cols) : cols[k].type /= "numeric" THEN rows
  ELSE IF Len(rows) < MinPoints THEN rows
  ELSE CallerArrayAfterSort(rows,
         SortByDate(rows, cols[CHOOSE k \in 1..Len(cols) :
                                 /\ cols[k].type = "datetime"
                                 /\ \A j \in (k + 1)..Len(cols) : cols[j].type /= "datetime"].name))

GenerateInsights ==
  /\ op = "none"
  /\ \E cols \in ColumnSets(data) :
       /\ columns' = cols
       /\ insights' = generateInsights(data, cols)
       /\ data' = DataAfterTrends(data, cols)
  /\ op' = "generateInsights"
  /\ UNCHANGED <<given, now, quality, info, outlierInfo, correlations,
                 trend, analysis, again, ai, store>>

(* new Date() reads a clock that does not run backwards *)
AnalyzeDataset ==
  /\ op = "none"
  /\ \E cols \in ColumnSets(data) : \E time \in now..MaxClock :
       /\ columns' = cols
       /\ analysis' = analyzeDataset(data, cols, time)
       /\ now' = time
       /\ data' = DataAfterTrends(data, cols)
  /\ op' = "analyzeDataset"
  /\ UNCHANGED <<given, quality, info, outlierInfo, correlations,
                 trend, insights, again, ai, store>>

AnalysisFunctions ==
  { "detectColumnTypes", "analyzeDataQuality", "identifyOutliers", "findCorrelations",
    "detectTimeTrends", "generateInsights", "analyzeDataset" }

(* What the first run returned *)
FirstOutput ==
  CASE op = "detectColumnTypes"  -> columns
    [] op = "analyzeDataQuality" -> quality
    [] op = "identifyOutliers"   -> outlierInfo
    [] op = "findCorrelations"   -> correlations
    [] op = "detectTimeTrends"   -> trend.result
    [] op = "generateInsights"   -> insights
    [] OTHER                     -> analysis

(* What the same call returns on the records and columns as they are now *)
SecondOutput(time) ==
  CASE op = "detectColumnTypes"  -> detectColumnTypes(data)
    [] op = "analyzeDataQuality" -> analyzeDataQuality(data)
    [] op = "identifyOutliers"   -> identifyOutliers(data, columns)
    [] op = "findCorrelations"   -> findCorrelations(data, columns)
    [] op = "detectTimeTrends"   -> detectTimeTrends(data, trend.dateColumn, trend.valueColumn)
    [] op = "generateInsights"   -> generateInsights(data, columns)
    [] OTHER                     -> analyzeDataset(data, columns, time)

(* The function that ran is called once more with the same arguments *)
RunAgain ==
  /\ op \in AnalysisFunctions
  /\ again = NoRun
  /\ \E time \in now..MaxClock :
       /\ again' = [fn |-> op, out |-> SecondOutput(time)]
       /\ now' = IF op = "analyzeDataset" THEN time ELSE now
  /\ UNCHANGED <<data, given, op, columns, quality, info, outlierInfo, correlations,
                 trend, insights, analysis, ai, store>>

Next == DetectColumnTypes \/ AnalyzeDataQuality \/ ProcessFile \/ RunAgain

NextInsights == IdentifyOutliers \/ FindCorrelations \/ RunAgain

NextTrends ==
  \/ DetectColumnTypes \/ AnalyzeDataQuality \/ IdentifyOutliers \/ FindCorrelations
  \/ DetectTimeTrends \/ GenerateInsights \/ AnalyzeDataset \/ RunAgain

Spec == Init /\ [][Next]_vars

SpecInsights == InitInsights /\ [][NextInsights]_vars

SpecTrends == InitTrends /\ [][NextTrends]_vars

(* Type inference on files of more records than are sampled *)
NextSample == DetectColumnTypes \/ RunAgain

SpecSample == InitSample /\ [][NextSample]_vars

----------------------------------------------------------------------------
(* State machine of one call of generateDataInsights *)

InitGemini ==
  /\ data \in ExampleData \cup {<<>>, RecommendationExample}
  /\ given = data
  /\ op = "none"
  /\ now = 0
  /\ columns = <<>>
  /\ quality = NoQuality
  /\ info = NoInfo
  /\ outlierInfo = <<>>
  /\ correlations = <<>>
  /\ trend = NoCall
  /\ insights = NoInsights
  /\ analysis = NoAnalysis
  /\ again = NoRun
  /\ store = NoStore
  /\ \E configured, dataIsNull, columnsAreNull \in BOOLEAN : \E service \in Services :
        ai = [Idle EXCEPT !.configured = configured, !.service = service,
                          !.dataIsNull = dataIsNull, !.columnsAreNull = columnsAreNull]

(* The call up to its first await: the function returns the fallback at    *)
(* once when the key is not configured or the inputs fail validation, and  *)
(* else sends the prompt                                                   *)
GenerateDataInsights ==
  /\ ai.pc = "idle"
  /\ op' = "generateDataInsights"
  /\ columns' = detectColumnTypes(data)
  /\ LET cols == detectColumnTypes(data)
     IN IF ~ai.configured \/ ~InputsValid(ai, data, cols)
        THEN ai' = [ai EXCEPT !.pc = ReturnFallback(ai, cols).pc,
                              !.result = ReturnFallback(ai, cols).result]
        ELSE ai' = [ai EXCEPT !.pc = "awaiting"]
  /\ UNCHANGED <<data, given, now, quality, info, outlierInfo, correlations,
                 trend, insights, analysis, again, store>>

(* The promise of model.generateContent(prompt) settles; a service that    *)
(* never answers leaves it pending                                         *)
ServiceSettles ==
  /\ ai.pc = "awaiting"
  /\ ai.service /= "silent"
  /\ ai' = [ai EXCEPT !.pc = "settled"]
  /\ UNCHANGED <<data, given, op, now, columns, quality, info, outlierInfo, correlations,
                 trend, insights, analysis, again, store>>

(* The function resumes after the await: the catch block for a failed      *)
(* request, parseAIResponse for an answer                                  *)
Resume ==
  /\ ai.pc = "settled"
  /\ IF ai.service = "throws" \/ parseAIResponse(ai.service) = <<>>
     THEN ai' = [ai EXCEPT !.pc = ReturnFallback(ai, columns).pc,
                           !.result = ReturnFallback(ai, columns).result]
     ELSE ai' = [ai EXCEPT !.pc = "resolved",
                           !.result = [kind |-> "model", list |-> parseAIResponse(ai.service)]]
  /\ UNCHANGED <<data, given, op, now, columns, quality, info, outlierInfo, correlations,
                 trend, insights, analysis, again, store>>

NextGemini == GenerateDataInsights \/ ServiceSettles \/ Resume

(* The event loop runs a continuation that is ready, and a service that    *)
(* answers does so eventually                                              *)
SpecGemini ==
  InitGemini /\ [][NextGemini]_vars /\ WF_vars(ServiceSettles) /\ WF_vars(Resume)

----------------------------------------------------------------------------
(* Properties of processFile and detectColumnTypes *)

(* The rows that hold some cell other than null, undefined and "" *)
KeptRows ==
  {i \in 1..Len(data) : \E c \in Cols : data[i][c] \notin {Absent, Null, Undefined, Str("")}}

(* C1: in every DatasetInfo that processFile produces, rowCount is the     *)
(* number of records left by the empty-row filter, columnCount is the      *)
(* length of columns, and no two columns have the same name.               *)
C1_DatasetInfoCounts ==
  (op = "processFile" /\ info.settled = "resolved") =>
     /\ info.rowCount = Cardinality(KeptRows)
     /\ info.rowCount = Len(info.data)
     /\ info.columnCount = Len(info.columns)
     /\ \A i, j \in 1..Len(info.columns) :
          info.columns[i].name = info.columns[j].name => i = j

C1_Witness ==
  /\ op = "processFile" /\ info.settled = "resolved"
  /\ info.rowCount > 0 /\ info.rowCount < Len(data)
  /\ info.columnCount = 2

(* The sampled records: the first min(100, n) *)
SampleIdx == 1..Min2(SampleLimit, Len(data))

(* The sampled cells of a column that are neither null nor undefined *)
PresentIdx(name) == {i \in SampleIdx : data[i][name] \notin {Absent, Null, Undefined}}

NumberOrNumericString(v) ==
  v.t = "number" \/ (v.t = "string" /\ v.s \in NumericStrings)

BooleanToken(v) ==
  \/ v.t = "boolean"
  \/ v = Num(0) \/ v = Num(1)
  \/ v.t = "string" /\ v.s \in {"0", "1", "true", "false", "yes", "no", "y", "n"}

FirstMatchingRule(name) ==
  LET P == PresentIdx(name)
      distinct == Cardinality({data[i][name] : i \in P})
  IN IF \A i \in P : NumberOrNumericString(data[i][name]) THEN "numeric"
     ELSE IF \A i \in P : BooleanToken(data[i][name]) THEN "boolean"
     ELSE IF \A i \in P : IsValidDate(data[i][name]) THEN "datetime"
     ELSE IF 5 * distinct < Cardinality(SampleIdx) /\ P /= {} THEN "categorical"
     ELSE "text"

MissingSentinels == {Absent, Undefined, Null, Str(""), Str("null"), Str("undefined")}

(* C3: a column whose value is missing (null or undefined, the cells that  *)
(* detectColumnTypes itself drops) in every sampled record is classified   *)
(* text and reported with a missing percentage of 100.                     *)
C3_AllMissingIsText ==
  op = "detectColumnTypes" =>
    \A k \in 1..Len(columns) :
       (\A i \in SampleIdx : data[i][columns[k].name] \in {Absent, Null, Undefined})
         => columns[k].type = "text" /\ columns[k].missingPercentage = Fin(100)

(* C4: every sampled cell that is absent, null, "", "null" or "undefined"  *)
(* is excluded from the classified values and counted in missingValues, so *)
(* that for at most 100 rows the columns' missingValues add up to          *)
(* analyzeDataQuality's missingValues.                                     *)
C4_SentinelsCountAsMissing ==
  op = "detectColumnTypes" =>
    /\ \A k \in 1..Len(columns) :
         columns[k].missingValues =
           Cardinality({i \in SampleIdx : data[i][columns[k].name] \in MissingSentinels})
    /\ Len(data) <= SampleLimit =>
         SumNat([k \in 1..Len(columns) |-> columns[k].missingValues])
           = analyzeDataQuality(data).missingValues

(* The numbers of the sampled values of a column, by index *)
NumberAt(name, i) == ToNumber(data[i][name]).v

(* The value of rank k (from 0) among the sampled numbers of a column *)
OrderStat(name, k) ==
  LET P == PresentIdx(name)
  IN CHOOSE v \in {NumberAt(name, i) : i \in P} :
       /\ Cardinality({i \in P : NumberAt(name, i) < v}) <= k
       /\ k < Cardinality({i \in P : NumberAt(name, i) <= v})

(* C5: for a numeric column with N >= 1 sampled values the median is the   *)
(* middle element of the ascending values (the mean of the two central     *)
(* ones when N is even), the quartiles are the values at indices           *)
(* floor(N/4), floor(N/2), floor(3N/4), and min <= Q1 <= Q2 <= Q3 <= max;  *)
(* [1,2,3,4,5] gives mean 3, median 3 and quartiles (2,3,4).               *)
C5_MedianAndQuartiles ==
  op = "detectColumnTypes" =>
    \A k \in 1..Len(columns) :
      LET col == columns[k]
          N == Cardinality(PresentIdx(col.name))
      IN (col.type = "numeric" /\ N >= 1) =>
           /\ col.median = IF N % 2 = 1 THEN Fin(OrderStat(col.name, N \div 2))
                           ELSE Frac(OrderStat(col.name, N \div 2 - 1)
                                       + OrderStat(col.name, N \div 2), 2)
           /\ col.quartiles = << Fin(OrderStat(col.name, N \div 4)),
                                 Fin(OrderStat(col.name, N \div 2)),
                                 Fin(OrderStat(col.name, (3 * N) \div 4)) >>
           /\ Le(col.min, col.quartiles[1])
           /\ Le(col.quartiles[1], col.quartiles[2])
           /\ Le(col.quartiles[2], col.quartiles[3])
           /\ Le(col.quartiles[3], col.max)
           /\ data = OfNumbers(<<1, 2, 3, 4, 5>>) =>
                /\ col.mean = Fin(3) /\ col.median = Fin(3)
                /\ col.quartiles = <<Fin(2), Fin(3), Fin(4)>>

C5_Witness ==
  /\ op = "detectColumnTypes" /\ data = OfNumbers(<<1, 2, 3, 4, 5>>)
  /\ columns[1].type = "numeric"
  /\ columns[1].quartiles = <<Fin(2), Fin(3), Fin(4)>>

----------------------------------------------------------------------------
(* Properties of analyzeDataQuality *)

HeldSentinels == {Null, Undefined, Str(""), Str("null"), Str("undefined")}

Content(row) == [c \in Cols |-> Get(row, c)]

DistinctRows == {Content(data[i]) : i \in 1..Len(data)}

(* C7: duplicateRows is the number of rows minus the number of distinct    *)
(* rows, so k identical rows contribute k - 1; two identical rows among    *)
(* ten give 1.                                                             *)
C7_DuplicateRows ==
  op = "analyzeDataQuality" =>
    quality.duplicateRows = Len(data) - Cardinality(DistinctRows)

C7_Witness ==
  /\ op = "analyzeDataQuality" /\ Len(data) = 10
  /\ Cardinality(DistinctRows) = 9
  /\ quality.duplicateRows = 1

----------------------------------------------------------------------------
(* Properties of identifyOutliers and findCorrelations *)

(* C8: the outliers total of analyzeDataQuality is the sum of the          *)
(* per-column counts that identifyOutliers reports on the same dataset.    *)
C8_OutlierTotalMatches ==
  op = "identifyOutliers" =>
    SumNat([k \in 1..Len(outlierInfo) |-> outlierInfo[k].count])
      = analyzeDataQuality(data).outliers

OutlierExample == OfNumbers(<<1, 2, 3, 4, 5, 100>>)

(* C9 as stated: for [1,2,3,4,5,100] the fences are (-1, 7), from Q1 = 2, *)
(* Q3 = 4 and IQR = 2, and the row with 100 is the only one flagged.       *)
C9_FencesAsStated ==
  (op = "identifyOutliers" /\ data = OutlierExample) =>
     /\ Len(outlierInfo) = 1
     /\ outlierInfo[1].boundaries = [lower |-> Fin(-1), upper |-> Fin(7)]
     /\ outlierInfo[1].count = 1
     /\ outlierInfo[1].examples = <<OutlierExample[6]>>

(* C9 amended: for [1,2,3,4,5,100] identifyOutliers takes Q1 = 2 and       *)
(* Q3 = 5, hence IQR = 3 and fences (-2.5, 9.5); the row with 100 is       *)
(* flagged and no other row is.                                            *)
C9_Fences ==
  (op = "identifyOutliers" /\ data = OutlierExample) =>
     /\ Len(outlierInfo) = 1
     /\ outlierInfo[1].name = "a"
     /\ LET lower == outlierInfo[1].boundaries.lower
            upper == outlierInfo[1].boundaries.upper
            iqr == Div(Sub(upper, lower), Fin(4))
        IN /\ lower = Frac(-5, 2) /\ upper = Frac(19, 2)
           /\ iqr = Fin(3)
           /\ Add(lower, Mul(Frac(3, 2), iqr)) = Fin(2)
           /\ Sub(upper, Mul(Frac(3, 2), iqr)) = Fin(5)
     /\ outlierInfo[1].count = 1
     /\ outlierInfo[1].examples = <<OutlierExample[6]>>

C9_Witness ==
  /\ op = "identifyOutliers" /\ data = OutlierExample
  /\ Len(outlierInfo) = 1 /\ outlierInfo[1].count = 1

(* The rows in which both columns hold a value other than null and absent *)
BothIdx(c1, c2) ==
  {i \in 1..Len(data) : data[i][c1] \notin {Absent, Null, Undefined}
                        /\ data[i][c2] \notin {Absent, Null, Undefined}}

SumIdx(P, F(_)) == SumNat([i \in 1..Len(data) |-> IF i \in P THEN F(i) ELSE 0])

(* n * sum(xy) - sum(x) * sum(y) over these rows, in integers *)
PearsonNumerator(c1, c2) ==
  LET P == BothIdx(c1, c2)
      X(i) == ToNumber(data[i][c1]).v
      Y(i) == ToNumber(data[i][c2]).v
  IN Cardinality(P) * SumIdx(P, LAMBDA i : X(i) * Y(i))
       - SumIdx(P, X) * SumIdx(P, Y)

(* (n * sum(x^2) - sum(x)^2) * (n * sum(y^2) - sum(y)^2), in integers *)
PearsonDenominatorSq(c1, c2) ==
  LET P == BothIdx(c1, c2)
      X(i) == ToNumber(data[i][c1]).v
      Y(i) == ToNumber(data[i][c2]).v
  IN (Cardinality(P) * SumIdx(P, LAMBDA i : X(i) * X(i)) - SumIdx(P, X) * SumIdx(P, X))
       * (Cardinality(P) * SumIdx(P, LAMBDA i : Y(i) * Y(i)) - SumIdx(P, Y) * SumIdx(P, Y))

AllFinite(c1, c2) ==
  \A i \in BothIdx(c1, c2) : IsFin(ToNumber(data[i][c1])) /\ IsFin(ToNumber(data[i][c2]))

(* C10: no pair whose Pearson coefficient r has |r| <= 0.5 is in the list  *)
(* that findCorrelations returns: every listed pair has r^2 > 1/4.         *)
C10_NoWeakCorrelation ==
  op = "findCorrelations" =>
    \A k \in 1..Len(correlations) :
       LET c1 == correlations[k].columns[1]
           c2 == correlations[k].columns[2]
       IN /\ AllFinite(c1, c2)
          /\ PearsonDenominatorSq(c1, c2) > 0
          /\ 4 * PearsonNumerator(c1, c2) * PearsonNumerator(c1, c2)
               > PearsonDenominatorSq(c1, c2)

(* A pair with five rows and 0 < |r| <= 0.5 was examined and is not listed *)
C10_Witness ==
  /\ op = "findCorrelations" /\ correlations = <<>>
  /\ Len(columns) = 2 /\ columns[1].type = "numeric" /\ columns[2].type = "numeric"
  /\ Cardinality(BothIdx("a", "b")) >= MinPoints
  /\ AllFinite("a", "b")
  /\ PearsonNumerator("a", "b") /= 0
  /\ 4 * PearsonNumerator("a", "b") * PearsonNumerator("a", "b")
       <= PearsonDenominatorSq("a", "b")

(* Columns c1 and c2 hold numbers in every row and c2 = (p/q) * c1 + r/q   *)
(* for some slope p/q > 0                                                  *)
LinearIn(c1, c2) ==
  /\ \A i \in 1..Len(data) : data[i][c1].t = "number" /\ data[i][c2].t = "number"
  /\ \E p \in 1..4 : \E q \in 1..4 : \E r \in -12..12 :
       \A i \in 1..Len(data) : q * data[i][c2].n = p * data[i][c1].n + r

NotConstant(c1) == \E i, j \in 1..Len(data) : data[i][c1] /= data[j][c1]

C12_SortedByStrength ==
  op = "findCorrelations" =>
    \A k \in 1..(Len(correlations) - 1) :
       Abs(correlations[k].correlation) >= Abs(correlations[k + 1].correlation)

(* The pair pushed last is listed first, ahead of a weaker pair *)
C12_Witness ==
  /\ op = "findCorrelations" /\ Len(correlations) >= 2
  /\ correlations[1].columns = <<"b", "c">>
  /\ Abs(correlations[1].correlation) > Abs(correlations[2].correlation)

----------------------------------------------------------------------------
(* Properties of detectTimeTrends, generateInsights and analyzeDataset *)

(* The call that ran: its date column holds valid dates and its value      *)
(* column numbers                                                          *)
TrendCall ==
  /\ op = "detectTimeTrends" /\ trend.result.found
  /\ \A i \in 1..Len(given) : /\ ~IsNaN(GetTime(given[i][trend.dateColumn]))
                              /\ given[i][trend.valueColumn].t = "number"

DateAt(i) == GetTime(given[i][trend.dateColumn]).v

ValueAt(i) == given[i][trend.valueColumn].n

(* The values rise strictly along the dates, which are distinct *)
IncreasingInDateOrder ==
  \A i, j \in 1..Len(given) :
     /\ i /= j => DateAt(i) /= DateAt(j)
     /\ DateAt(i) < DateAt(j) => ValueAt(i) < ValueAt(j)

FlatSeries == \A i, j \in 1..Len(given) : ValueAt(i) = ValueAt(j)

(* The rows of the first and of the last quarter in date order *)
FirstQuarterIdx ==
  {i \in 1..Len(given) :
     Cardinality({j \in 1..Len(given) : DateAt(j) < DateAt(i)}) < Len(given) \div 4}

LastQuarterIdx ==
  {i \in 1..Len(given) :
     Cardinality({j \in 1..Len(given) : DateAt(j) < DateAt(i)}) >= (3 * Len(given)) \div 4}

SumOver(P) == SumNat([i \in 1..Len(given) |-> IF i \in P THEN ValueAt(i) ELSE 0])

C14_FewRowsNoFindings ==
  (op = "generateInsights" /\ Len(given) < 5) =>
     /\ insights.outliers = <<>>
     /\ insights.correlations = <<>>
     /\ insights.timeTrends = <<>>

(* Four rows 0, 10, 10, 10 under a date and a numeric column: the fences   *)
(* of these values would flag the 0                                        *)
C14_Witness ==
  /\ op = "generateInsights" /\ Len(given) = 4
  /\ Len(columns) = 2 /\ columns[1].type = "datetime" /\ columns[2].type = "numeric"
  /\ given[1]["b"] = Num(0) /\ \A i \in 2..4 : given[i]["b"] = Num(10)
  /\ insights = NoInsights

FirstAverageIsZero(dc, vc) ==
  LET T(i) == GetTime(given[i][dc])
      first == {i \in 1..Len(given) :
                  Cardinality({j \in 1..Len(given) : T(j).v < T(i).v}) < Len(given) \div 4}
  IN /\ Len(given) >= 5
     /\ \A i \in 1..Len(given) : ~IsNaN(T(i)) /\ given[i][vc].t = "number"
     /\ \A i, j \in 1..Len(given) : i /= j => T(i) /= T(j)
     /\ SumNat([i \in 1..Len(given) |-> IF i \in first THEN given[i][vc].n ELSE 0]) = 0

(* C16: when the average of the first-quarter values of the date-sorted    *)
(* series is 0, detectTimeTrends returns absent for the pair and           *)
(* generateInsights adds no timeTrends entry for it.                       *)
C16_ZeroFirstAverageIsAbsent ==
  /\ (op = "detectTimeTrends" /\ FirstAverageIsZero(trend.dateColumn, trend.valueColumn))
       => ~trend.result.found
  /\ op = "generateInsights" =>
       \A k \in 1..Len(insights.timeTrends) :
          ~FirstAverageIsZero(insights.timeTrends[k].dateColumn,
                              insights.timeTrends[k].valueColumn)

(* The datasets that agree with rows on the sampled records *)
SameSample(rows) ==
  IF Len(rows) < SampleLimit THEN {rows}
  ELSE {SubSeq(rows, 1, SampleLimit) \o tail : tail \in Tails}

(* C19: the output of detectColumnTypes depends only on the first          *)
(* min(100, N) records: every dataset that agrees with the given one on    *)
(* its first 100 records yields the same columns, whatever follows.        *)
C19_SampleDecides ==
  op = "detectColumnTypes" =>
    \A other \in SameSample(data) : detectColumnTypes(other) = columns

(* A file of more than 100 records whose later records hold a text and a   *)
(* gap while the column is inferred numeric from the first 100             *)
C19_Witness ==
  /\ op = "detectColumnTypes"
  /\ Len(data) = SampleLimit + 2
  /\ data[SampleLimit + 1]["a"] = Str("abc")
  /\ data[SampleLimit + 2]["a"] = Null
  /\ columns[1].type = "numeric"
  /\ columns[1].missingValues = 0
  /\ columns[1].uniqueValues = 5

(* A cell that holds a value which Number() cannot read *)
Unparseable(val) == NotNullish(val) /\ IsNaN(ToNumber(val))

(* The dataset in which the unparseable cells of the columns marked        *)
(* numeric are missing                                                     *)
CellsMissing(rows, cols) ==
  [i \in 1..Len(rows) |->
     [c \in Cols |->
        IF /\ \E k \in 1..Len(cols) : cols[k].name = c /\ cols[k].type = "numeric"
           /\ Unparseable(rows[i][c])
        THEN Null ELSE rows[i][c]]]

(* C18: a non-numeric value in a column taken as numeric is left out where *)
(* the statistics are computed: findCorrelations returns for a dataset     *)
(* with such cells what it returns for the dataset in which these cells    *)
(* are missing.                                                            *)
C18_UnparseableAsMissing ==
  op = "findCorrelations" =>
    correlations = findCorrelations(CellsMissing(data, columns), columns)

(* The recommendations generateInsights returned *)
Recs == insights.recommendations

RecommendationOrder == <<"correlation", "trend", "seasonality", "outliers">>

(* The place of a recommendation type in the order *)
Place(type) == CHOOSE p \in 1..Len(RecommendationOrder) : RecommendationOrder[p] = type

HasRecommendation(type) == \E k \in 1..Len(Recs) : Recs[k].type = type

(* The names a recommendation of the type cites *)
NamesOf(type) == Recs[CHOOSE k \in 1..Len(Recs) : Recs[k].type = type].names

(* C20: generateInsights returns at most four recommendations, at most one *)
(* of each kind and in the order correlation, trend, seasonality,          *)
(* outliers; the correlation one is present iff correlations is non-empty  *)
(* and names the two columns of the first correlation, the trend one iff   *)
(* some trend has |percentChange| > 20, the seasonality one iff some trend *)
(* is seasonal, the outlier one iff some column has outliers, and it names *)
(* every such column.                                                      *)
C20_Recommendations ==
  op = "generateInsights" =>
    /\ Len(Recs) <= 4
    /\ \A k \in 1..Len(Recs) : Recs[k].type \in Range(RecommendationOrder)
    /\ \A j, k \in 1..Len(Recs) : j < k => Place(Recs[j].type) < Place(Recs[k].type)
    /\ HasRecommendation("correlation") <=> insights.correlations /= <<>>
    /\ HasRecommendation("correlation") =>
         NamesOf("correlation") = insights.correlations[1].columns
    /\ HasRecommendation("trend") <=>
         \E k \in 1..Len(insights.timeTrends) :
            \/ Gt(insights.timeTrends[k].percentChange, Fin(20))
            \/ Lt(insights.timeTrends[k].percentChange, Fin(-20))
    /\ HasRecommendation("seasonality") <=>
         \E k \in 1..Len(insights.timeTrends) : insights.timeTrends[k].seasonality
    /\ HasRecommendation("outliers") <=> insights.outliers /= <<>>
    /\ HasRecommendation("outliers") =>
         NamesOf("outliers") = [k \in 1..Len(insights.outliers) |-> insights.outliers[k].name]

(* All four recommendations at once: two correlated value columns that     *)
(* zig-zag along the dates and end in an outlier                           *)
C20_Witness ==
  /\ op = "generateInsights"
  /\ given = RecommendationExample
  /\ [k \in 1..Len(Recs) |-> Recs[k].type] = RecommendationOrder
  /\ NamesOf("correlation") = <<"b", "c">>
  /\ NamesOf("trend") = <<"b">>
  /\ Recs[2].percentChange = Fin(200)
  /\ NamesOf("outliers") = <<"b", "c">>

----------------------------------------------------------------------------
(* Properties of generateDataInsights *)

(* The service is not configured, fails, answers with text that cannot be  *)
(* parsed or with no text, or never answers                                *)
Degraded == ~ai.configured \/ ai.service \in {"throws", "broken JSON", "empty", "silent"}

(* C17: whenever the generative service is unconfigured, throws, returns   *)
(* unparseable or empty text, or never answers, generateDataInsights       *)
(* eventually completes with the non-empty fallback list and never rejects *)
(* to its caller.                                                          *)
C17_FallbackEventually ==
  /\ [](Degraded => ai.pc /= "rejected")
  /\ (ai.pc /= "idle" /\ Degraded)
       ~> (ai.pc = "resolved" /\ ai.result.kind = "fallback" /\ ai.result.list /= <<>>)

----------------------------------------------------------------------------
(* Further properties of identifyOutliers and findCorrelations *)

(* The count identifyOutliers reports for a column; 0 when it has no entry *)
ReportedCount(colName) ==
  IF \E k \in 1..Len(outlierInfo) : outlierInfo[k].name = colName
  THEN outlierInfo[CHOOSE k \in 1..Len(outlierInfo) : outlierInfo[k].name = colName].count
  ELSE 0

(* The rows whose value in the column is not missing and lies outside the  *)
(* fences around the quartiles of the sorted values                        *)
RowsOutside(colName, sorted) ==
  {i \in 1..Len(data) :
     /\ NotNullish(Get(data[i], colName))
     /\ \/ Lt(ToNumber(Get(data[i], colName)),
              Sub(sorted[Len(sorted) \div 4 + 1],
                  Mul(Frac(3, 2), Sub(sorted[(3 * Len(sorted)) \div 4 + 1],
                                      sorted[Len(sorted) \div 4 + 1]))))
        \/ Gt(ToNumber(Get(data[i], colName)),
              Add(sorted[(3 * Len(sorted)) \div 4 + 1],
                  Mul(Frac(3, 2), Sub(sorted[(3 * Len(sorted)) \div 4 + 1],
                                      sorted[Len(sorted) \div 4 + 1]))))}

(* C21: identifyOutliers skips a numeric column with fewer than 5 values   *)
(* that are not missing; otherwise Q1 and Q3 are the sorted values at      *)
(* floor(n * 0.25) and floor(n * 0.75), a row counts exactly when its      *)
(* value is not missing and lies below Q1 - 1.5 IQR or above Q3 + 1.5 IQR, *)
(* and the column appears in the result iff its count is positive.         *)
C21_OutlierCount ==
  op = "identifyOutliers" =>
    /\ \A k \in 1..Len(outlierInfo) : outlierInfo[k].count > 0
    /\ \A k \in 1..Len(columns) :
         columns[k].type = "numeric" =>
           ReportedCount(columns[k].name)
             = IF Len(NumericValues(data, columns[k].name)) < 5 THEN 0
               ELSE Cardinality(RowsOutside(columns[k].name,
                                            SortAsc(NumericValues(data, columns[k].name))))
    /\ \A k \in 1..Len(outlierInfo) :
         \E j \in 1..Len(columns) :
            columns[j].type = "numeric" /\ columns[j].name = outlierInfo[k].name

(***************************************************************************)
(* IEEE 754 double arithmetic, as findCorrelations performs it on cells    *)
(* that are not whole numbers.  A natural number is a little-endian        *)
(* sequence of 12-bit limbs without a leading zero limb; a double is a     *)
(* sign, such a natural m and an exponent e, standing for sign * m * 2^e.  *)
(***************************************************************************)
RECURSIVE Trim(_)
Trim(a) ==
  IF a /= <<>> /\ a[Len(a)] = 0 THEN Trim(SubSeq(a, 1, Len(a) - 1)) ELSE a

LimbAt(a, i) == IF i <= Len(a) THEN a[i] ELSE 0

RECURSIVE AddCarry(_, _, _, _)
AddCarry(a, b, i, carry) ==
  IF i > Len(a) /\ i > Len(b)
  THEN (IF carry = 0 THEN <<>> ELSE <<carry>>)
  ELSE <<(LimbAt(a, i) + LimbAt(b, i) + carry) % 4096>>
       \o AddCarry(a, b, i + 1, (LimbAt(a, i) + LimbAt(b, i) + carry) \div 4096)

BigAdd(a, b) == AddCarry(a, b, 1, 0)

(* a - b for a >= b *)
RECURSIVE SubBorrow(_, _, _, _)
SubBorrow(a, b, i, borrow) ==
  IF i > Len(a) THEN <<>>
  ELSE <<(a[i] - LimbAt(b, i) - borrow) % 4096>>
       \o SubBorrow(a, b, i + 1, IF a[i] - LimbAt(b, i) - borrow < 0 THEN 1 ELSE 0)

BigSub(a, b) == Trim(SubBorrow(a, b, 1, 0))

(* -1, 0 or 1 as a is below, equal to or above b *)
RECURSIVE CmpFrom(_, _, _)
CmpFrom(a, b, i) ==
  IF i = 0 THEN 0
  ELSE IF a[i] < b[i] THEN -1
  ELSE IF a[i] > b[i] THEN 1
  ELSE CmpFrom(a, b, i - 1)

BigCmp(a, b) ==
  IF Len(a) < Len(b) THEN -1
  ELSE IF Len(a) > Len(b) THEN 1
  ELSE CmpFrom(a, b, Len(a))

RECURSIVE MulLimb(_, _, _, _)
MulLimb(a, d, i, carry) ==
  IF i > Len(a)
  THEN (IF carry = 0 THEN <<>> ELSE <<carry>>)
  ELSE <<(a[i] * d + carry) % 4096>> \o MulLimb(a, d, i + 1, (a[i] * d + carry) \div 4096)

RECURSIVE MulFrom(_, _, _)
MulFrom(a, b, i) ==
  IF i > Len(a) THEN <<>>
  ELSE BigAdd(MulLimb(b, a[i], 1, 0), <<0>> \o MulFrom(a, b, i + 1))

BigMul(a, b) == Trim(MulFrom(a, b, 1))

BigOf(n) == Trim(<<n % 4096, n \div 4096>>)

LimbBits(d) == CHOOSE k \in 1..12 : 2^(k - 1) <= d /\ d < 2^k

BitLen(a) == IF a = <<>> THEN 0 ELSE 12 * (Len(a) - 1) + LimbBits(a[Len(a)])

ShiftL(a, k) ==
  IF a = <<>> THEN <<>>
  ELSE [i \in 1..(k \div 12) |-> 0] \o MulLimb(a, 2^(k % 12), 1, 0)

DropLimbs(a, count) == SubSeq(a, count + 1, Len(a))

ShiftBits(a, s) ==
  Trim([i \in 1..Len(a) |-> (a[i] \div 2^s) + (LimbAt(a, i + 1) % 2^s) * 2^(12 - s)])

(* floor(a / 2^k) *)
ShiftR(a, k) == ShiftBits(DropLimbs(a, k \div 12), k % 12)

IsOdd(a) == a /= <<>> /\ a[1] % 2 = 1

Dbl(sign, m, e) == [sign |-> sign, m |-> m, e |-> e]

DZero == Dbl(1, <<>>, 0)

(* The quotient of m by 2^k rounded to nearest, ties to even *)
RoundedQuotient(q, cmp) ==
  IF cmp > 0 \/ (cmp = 0 /\ IsOdd(q)) THEN BigAdd(q, <<1>>) ELSE q

RoundShift(m, k) ==
  RoundedQuotient(ShiftR(m, k),
                  BigCmp(BigSub(m, ShiftL(ShiftR(m, k), k)), ShiftL(<<1>>, k - 1)))

(* The double nearest to sign * m * 2^e: 53 significant bits *)
RoundToDouble(sign, m, e) ==
  IF m = <<>> THEN DZero
  ELSE IF BitLen(m) <= 53 THEN Dbl(sign, m, e)
  ELSE Dbl(sign, RoundShift(m, BitLen(m) - 53), e + (BitLen(m) - 53))

(* The sum of two signed naturals with a common exponent *)
SignedSum(sx, mx, sy, my, e) ==
  IF sx = sy THEN RoundToDouble(sx, BigAdd(mx, my), e)
  ELSE IF BigCmp(mx, my) >= 0 THEN RoundToDouble(sx, BigSub(mx, my), e)
  ELSE RoundToDouble(sy, BigSub(my, mx), e)

AlignedSum(x, y, e) ==
  SignedSum(x.sign, ShiftL(x.m, x.e - e), y.sign, ShiftL(y.m, y.e - e), e)

(* x + y *)
DAdd(x, y) ==
  IF x.m = <<>> THEN y
  ELSE IF y.m = <<>> THEN x
  ELSE AlignedSum(x, y, IF x.e < y.e THEN x.e ELSE y.e)

DNeg(x) == IF x.m = <<>> THEN x ELSE Dbl(-x.sign, x.m, x.e)

(* x - y *)
DSub(x, y) == DAdd(x, DNeg(y))

(* x * y *)
DMul(x, y) == RoundToDouble(x.sign * y.sign, BigMul(x.m, y.m), x.e + y.e)

(* -1, 0 or 1 as |x| is below, equal to or above |y| *)
CmpAligned(x, y, e) == BigCmp(ShiftL(x.m, x.e - e), ShiftL(y.m, y.e - e))

CmpMagnitude(x, y) == CmpAligned(x, y, IF x.e < y.e THEN x.e ELSE y.e)

(* The largest r with r * r <= n that extends r in the bits from bit down  *)
(* to low                                                                  *)
RECURSIVE SqrtBits(_, _, _, _)
SqrtStep(n, r, candidate, bit, low) ==
  IF BigCmp(BigMul(candidate, candidate), n) <= 0
  THEN SqrtBits(n, candidate, bit - 1, low)
  ELSE SqrtBits(n, r, bit - 1, low)

SqrtBits(n, r, bit, low) ==
  IF bit < low THEN r ELSE SqrtStep(n, r, BigAdd(r, ShiftL(<<1>>, bit)), bit, low)

(* One limb of the root after the other, from the highest *)
RECURSIVE SqrtLimbs(_, _, _)
SqrtLimbs(n, r, limb) ==
  IF limb = 0 \/ Len(r) > Len(n) THEN r
  ELSE SqrtLimbs(n, SqrtBits(n, r, 12 * limb - 1, 12 * limb - 12), limb - 1)

ISqrt(n) == SqrtLimbs(n, <<>>, (Len(n) + 1) \div 2)

(* The largest r with r * b <= a that extends r in the bits from bit down  *)
(* to low                                                                  *)
RECURSIVE QuotientBits(_, _, _, _, _)
QuotientStep(a, b, r, candidate, bit, low) ==
  IF BigCmp(BigMul(candidate, b), a) <= 0
  THEN QuotientBits(a, b, candidate, bit - 1, low)
  ELSE QuotientBits(a, b, r, bit - 1, low)

QuotientBits(a, b, r, bit, low) ==
  IF bit < low THEN r
  ELSE QuotientStep(a, b, r, BigAdd(r, ShiftL(<<1>>, bit)), bit, low)

RECURSIVE QuotientLimbs(_, _, _, _)
QuotientLimbs(a, b, r, limb) ==
  IF limb = 0 \/ Len(r) > Len(a) THEN r
  ELSE QuotientLimbs(a, b, QuotientBits(a, b, r, 12 * limb - 1, 12 * limb - 12), limb - 1)

FloorQuotient(a, b) ==
  IF BigCmp(a, b) < 0 THEN <<>> ELSE QuotientLimbs(a, b, <<>>, Len(a) - Len(b) + 1)

(* A truncated result with one more bit that tells whether anything was    *)
(* cut off, so that rounding to nearest sees ties as they are              *)
WithSticky(t, exact) == BigAdd(ShiftL(t, 1), IF exact THEN <<>> ELSE <<1>>)

SqrtRounded(t, m, e) == RoundToDouble(1, WithSticky(t, BigMul(t, t) = m), (e \div 2) - 1)

SqrtOfScaled(m, e) == SqrtRounded(ISqrt(m), m, e)

SqrtShift(x, base) == base + ((x.e - base) % 2)

SqrtScaled(x, k) == SqrtOfScaled(ShiftL(x.m, k), x.e - k)

(* Math.sqrt(x) for x >= 0, correctly rounded *)
DSqrt(x) ==
  IF x.m = <<>> THEN DZero
  ELSE SqrtScaled(x, SqrtShift(x, IF BitLen(x.m) < 110 THEN 110 - BitLen(x.m) ELSE 0))

QuotientRounded(sign, q, a, b, e) ==
  RoundToDouble(sign, WithSticky(q, BigMul(q, b) = a), e - 1)

QuotientOfScaled(sign, a, b, e) == QuotientRounded(sign, FloorQuotient(a, b), a, b, e)

DivScaled(x, y, k) == QuotientOfScaled(x.sign * y.sign, ShiftL(x.m, k), y.m, x.e - k - y.e)

(* x / y for y /= 0, correctly rounded *)
DDiv(x, y) ==
  IF x.m = <<>> THEN DZero
  ELSE DivScaled(x, y, IF BitLen(x.m) < 56 + BitLen(y.m)
                       THEN 56 + BitLen(y.m) - BitLen(x.m) ELSE 0)

BigToInt(a) == LimbAt(a, 1) + 4096 * LimbAt(a, 2)

(* |x|.toFixed(2) as a count of hundredths: the nearest, the larger of two *)
(* equally near                                                            *)
Hundredths(x) ==
  IF x.e >= 0 THEN BigToInt(BigMul(ShiftL(x.m, x.e), <<100>>))
  ELSE BigToInt(ShiftR(BigAdd(BigMul(x.m, <<200>>), ShiftL(<<1>>, -x.e)), 1 - x.e))

----------------------------------------------------------------------------
(* services/aiAnalysis: findCorrelations on cells that are not whole       *)
(* numbers.  Papa.parse runs with dynamicTyping, so the cell 0.1 of a CSV  *)
(* file is the number 0.1: the double nearest to one tenth.                *)

(* A number cell written as a decimal numeral *)
Dec(text) == [t |-> "number", n |-> 0, s |-> text]

Decimals == {"0.1", "0.2", "0.3", "0.5", "0.7", "1.1", "2.5", "19.99"}

(* The double nearest to the numeral *)
DoubleOfDecimal(text) ==
  CASE text = "0.1" -> Dbl(1, <<3277, 3276, 3276, 3276, 12>>, -55)
    [] text = "0.2" -> Dbl(1, <<3277, 3276, 3276, 3276, 12>>, -54)
    [] text = "0.3" -> Dbl(1, <<819, 819, 819, 819, 19>>, -54)
    [] text = "0.5" -> Dbl(1, <<1>>, -1)
    [] text = "0.7" -> Dbl(1, <<819, 819, 819, 819, 11>>, -52)
    [] text = "0.8" -> Dbl(1, <<3277, 3276, 3276, 3276, 12>>, -52)
    [] text = "1.1" -> Dbl(1, <<3277, 3276, 3276, 3276, 8>>, -51)
    [] text = "2.5" -> Dbl(1, <<5>>, -1)
    [] text = "19.99" -> Dbl(1, <<2621, 3440, 163, 4055, 19>>, -48)

DoubleOfInt(n) == IF n < 0 THEN Dbl(-1, BigOf(-n), 0) ELSE Dbl(1, BigOf(n), 0)

(* Number(val) for a cell that holds a number *)
DoubleOf(val) ==
  IF val.t = "number" /\ val.s /= "" THEN DoubleOfDecimal(val.s)
  ELSE DoubleOfInt(ToNumber(val).v)

(* rows where both cells are neither null nor undefined, as doubles *)
DoublePairs(rows, col1, col2) ==
  LET both == SelectSeq(rows, LAMBDA row : NotNullish(Get(row, col1))
                                           /\ NotNullish(Get(row, col2)))
  IN [i \in 1..Len(both) |-> [x |-> DoubleOf(Get(both[i], col1)),
                              y |-> DoubleOf(Get(both[i], col2))]]

(* terms.reduce((sum, t) => sum + t, 0) over the first k terms *)
RECURSIVE DSumTo(_, _)
DSumTo(terms, k) == IF k = 0 THEN DZero ELSE DAdd(DSumTo(terms, k - 1), terms[k])

DSum(terms) == DSumTo(terms, Len(terms))

(* n * sumXY - sumX * sumY *)
DoubleNumerator(n, sumX, sumY, sumXY) == DSub(DMul(n, sumXY), DMul(sumX, sumY))

(* (n * sumX2 - sumX * sumX) * (n * sumY2 - sumY * sumY) *)
DoubleRadicand(n, sumX, sumY, sumX2, sumY2) ==
  DMul(DSub(DMul(n, sumX2), DMul(sumX, sumX)), DSub(DMul(n, sumY2), DMul(sumY, sumY)))

NumeratorOfPairs(pairs) ==
  DoubleNumerator(DoubleOfInt(Len(pairs)),
                  DSum([i \in 1..Len(pairs) |-> pairs[i].x]),
                  DSum([i \in 1..Len(pairs) |-> pairs[i].y]),
                  DSum([i \in 1..Len(pairs) |-> DMul(pairs[i].x, pairs[i].y)]))

RadicandOfPairs(pairs) ==
  DoubleRadicand(DoubleOfInt(Len(pairs)),
                 DSum([i \in 1..Len(pairs) |-> pairs[i].x]),
                 DSum([i \in 1..Len(pairs) |-> pairs[i].y]),
                 DSum([i \in 1..Len(pairs) |-> DMul(pairs[i].x, pairs[i].x)]),
                 DSum([i \in 1..Len(pairs) |-> DMul(pairs[i].y, pairs[i].y)]))

(* The pushed entry for the coefficient r, |r| > 0.5 *)
DoubleEntry(col1, col2, r) ==
  [ columns |-> <<col1, col2>>,
    correlation |-> r.sign * Hundredths(r),
    strength |-> IF CmpMagnitude(r, DoubleOfDecimal("0.8")) > 0 THEN "strong" ELSE "moderate",
    direction |-> IF r.sign > 0 THEN "positive" ELSE "negative" ]

EntryIfSignificant(col1, col2, r) ==
  IF CmpMagnitude(r, DoubleOfDecimal("0.5")) > 0 THEN <<DoubleEntry(col1, col2, r)>> ELSE <<>>

(* What one pair of columns adds to the list: nothing when denominator is  *)
(* 0, nothing when the radicand is negative and the coefficient NaN        *)
EntryOfParts(col1, col2, numerator, radicand) ==
  IF radicand.m = <<>> \/ radicand.sign < 0 THEN <<>>
  ELSE EntryIfSignificant(col1, col2, DDiv(numerator, DSqrt(radicand)))

EntryOfPairs(col1, col2, pairs) ==
  IF Len(pairs) < MinPoints THEN <<>>
  ELSE EntryOfParts(col1, col2, NumeratorOfPairs(pairs), RadicandOfPairs(pairs))

RECURSIVE EntriesFrom(_, _, _, _)
EntriesFrom(rows, numericColumns, ij, k) ==
  IF k > Len(ij) THEN <<>>
  ELSE EntryOfPairs(numericColumns[ij[k][1]].name, numericColumns[ij[k][2]].name,
                    DoublePairs(rows, numericColumns[ij[k][1]].name,
                                      numericColumns[ij[k][2]].name))
       \o EntriesFrom(rows, numericColumns, ij, k + 1)

NumericColumnsOf(cols) == SelectSeq(cols, LAMBDA col : col.type = "numeric")

findCorrelationsInDoubles(rows, cols) ==
  IF Len(rows) = 0 THEN <<>>
  ELSE SortByStrength(EntriesFrom(rows, NumericColumnsOf(cols),
                                  IndexPairs(1, 2, Len(NumericColumnsOf(cols))), 1))

(* Files of two number columns read from CSV: each column is one decimal   *)
(* on every row or counts the rows, and the first gap rows miss their b    *)
MaxDecimalRows == 6

DecimalCell(kind, i) == IF kind = "ramp" THEN Num(i) ELSE Dec(kind)

DecimalData(d) ==
  \E n \in MinPoints..MaxDecimalRows : \E gap \in 0..1 :
  \E first \in Decimals \cup {"ramp"} : \E second \in Decimals \cup {"ramp"} :
     d = [i \in 1..n |-> RowOf(DecimalCell(first, i),
                               IF i <= gap THEN Null ELSE DecimalCell(second, i))]

(* The columns detectColumnTypes finds for number cells, cut down to the   *)
(* two fields findCorrelations reads                                       *)
BothNumeric == <<[name |-> "a", type |-> "numeric"], [name |-> "b", type |-> "numeric"]>>

InitFloat == DecimalData(data) /\ Start

FindCorrelationsOfDecimals ==
  /\ op = "none"
  /\ columns' = BothNumeric
  /\ correlations' = findCorrelationsInDoubles(data, BothNumeric)
  /\ op' = "findCorrelations"
  /\ UNCHANGED <<data, given, now, quality, info, outlierInfo,
                 trend, insights, analysis, again, ai, store>>

NextFloat == FindCorrelationsOfDecimals

SpecFloat == InitFloat /\ [][NextFloat]_vars

(* The rows where both columns have a value *)
CommonRows(col1, col2) ==
  {i \in 1..Len(data) : NotNullish(Get(data[i], col1)) /\ NotNullish(Get(data[i], col2))}

SameNumber(u, v) ==
  IF (u.t = "number" /\ u.s /= "") \/ (v.t = "number" /\ v.s /= "")
  THEN u = v
  ELSE ToNumber(u) = ToNumber(v)

(* The column has one value on all the given rows *)
ConstantOver(col, rowSet) ==
  \A i \in rowSet : \A j \in rowSet : SameNumber(Get(data[i], col), Get(data[j], col))

EntriesFor(col1, col2) ==
  {k \in 1..Len(correlations) : correlations[k].columns \in {<<col1, col2>>, <<col2, col1>>}}

NumericNames == {columns[k].name : k \in {j \in 1..Len(columns) : columns[j].type = "numeric"}}

(* C22: findCorrelations looks at each unordered pair of distinct numeric  *)
(* columns once, over the rows where both have a value, and leaves the     *)
(* pair out when there are fewer than 5 such rows or when either column is *)
(* constant over them (zero denominator).                                  *)
C22_PairsOmitted ==
  op = "findCorrelations" =>
    /\ \A k \in 1..Len(correlations) :
         /\ correlations[k].columns[1] \in NumericNames
         /\ correlations[k].columns[2] \in NumericNames
         /\ correlations[k].columns[1] /= correlations[k].columns[2]
    /\ \A col1 \in NumericNames : \A col2 \in NumericNames \ {col1} :
         /\ Cardinality(EntriesFor(col1, col2)) <= 1
         /\ ( \/ Cardinality(CommonRows(col1, col2)) < MinPoints
              \/ ConstantOver(col1, CommonRows(col1, col2))
              \/ ConstantOver(col2, CommonRows(col1, col2)) )
            => EntriesFor(col1, col2) = {}

----------------------------------------------------------------------------
(* Further properties of generateInsights and detectTimeTrends *)

MathAbs(x) == IF Lt(x, Fin(0)) THEN Neg(x) ELSE x

(* The trend recommendation of the last generateInsights call *)
TrendRecommendation == Recs[CHOOSE k \in 1..Len(Recs) : Recs[k].type = "trend"]

(* C23: the trend recommendation cites the most significant trend: the one *)
(* whose |percentChange| is largest among the trends with                  *)
(* |percentChange| > 20.                                                   *)
C23_MostSignificantTrend ==
  (op = "generateInsights" /\ HasRecommendation("trend")) =>
    /\ \E k \in 1..Len(insights.timeTrends) :
         /\ SignificantTrend(insights.timeTrends[k])
         /\ TrendRecommendation.names = <<insights.timeTrends[k].valueColumn>>
         /\ TrendRecommendation.percentChange = insights.timeTrends[k].percentChange
         /\ TrendRecommendation.trendDirection = insights.timeTrends[k].trendDirection
    /\ \A k \in 1..Len(insights.timeTrends) :
         SignificantTrend(insights.timeTrends[k]) =>
           ~Lt(MathAbs(TrendRecommendation.percentChange),
               MathAbs(insights.timeTrends[k].percentChange))

(* detectTimeTrends alone on the dated tables *)
NextSeries == DetectTimeTrends \/ RunAgain

SpecSeries == InitTrends /\ [][NextSeries]_vars

(* The values of the last detectTimeTrends call in the order of their dates *)
SortedValues == ValuesOf(SortByDate(given, trend.dateColumn), trend.valueColumn)

(* The places where two adjacent first differences have strictly opposite  *)
(* signs                                                                   *)
OppositePairs(values) ==
  {i \in 1..(Len(values) - 2) :
     Lt(Mul(Sub(values[i + 1], values[i]), Sub(values[i + 2], values[i + 1])), Fin(0))}

ManyOppositePairs(values) ==
  10 * Cardinality(OppositePairs(values)) > 4 * (Len(values) - 1)

(* C24: detectTimeTrends reports seasonality exactly when the number of    *)
(* adjacent pairs of first differences with strictly opposite signs is     *)
(* more than 40% of N - 1, the number of first differences.                *)
C24_Seasonality ==
  (op = "detectTimeTrends" /\ trend.result.found) =>
    (trend.result.seasonality <=> ManyOppositePairs(SortedValues))

(* Two sign changes among the four differences of five values: 50% *)
C24_Witness ==
  /\ op = "detectTimeTrends"
  /\ trend.result.found
  /\ trend.result.seasonality
  /\ Len(SortedValues) = ShortRows
  /\ Cardinality(OppositePairs(SortedValues)) = 2

(* Every entry is the mean of the value at its place and the two after it *)
MeansOfThree(means, values) ==
  \A i \in 1..Len(means) :
     Mul(means[i], Fin(3)) = Add(values[i], Add(values[i + 1], values[i + 2]))

(* C25: for N >= 5 rows movingAverage has exactly N - 2 entries, and the   *)
(* i-th is the mean of the i-th to (i+2)-th values in date order.          *)
C25_MovingAverage ==
  (op = "detectTimeTrends" /\ Len(given) >= 5) =>
    /\ trend.result.found
    /\ Len(trend.result.movingAverage) = Len(given) - 2
    /\ MeansOfThree(trend.result.movingAverage, SortedValues)

(* Values that differ, given out of date order, so that a window over the  *)
(* rows as given would show other means                                    *)
C25_Witness ==
  /\ op = "detectTimeTrends"
  /\ Len(given) >= 5
  /\ trend.result.found
  /\ trend.result.movingAverage /= MovingAverage(ValuesOf(given, trend.valueColumn))
  /\ \E i \in 1..Len(trend.result.movingAverage) :
        ~(trend.result.movingAverage[i] \in {Fin(0), Fin(1), Fin(2)})

----------------------------------------------------------------------------
(* services/geminiAI: the entries of generateFallbackInsights *)

(* confidence of the entry with the given title, in hundredths *)
FallbackConfidence(title) ==
  CASE title = "Dataset Overview"                   -> 90
    [] title = "Data Quality Assessment"            -> 95
    [] title = "Statistical Analysis Opportunities" -> 80
    [] title = "Categorical Data Insights"          -> 75
    [] title = "Time Series Analysis Potential"     -> 85
    [] title = "Data Exploration Recommendation"    -> 70
    [] title = "Dataset Loaded Successfully"        -> 100

FallbackType(title) ==
  CASE title \in {"Dataset Overview", "Dataset Loaded Successfully"} -> "summary"
    [] title = "Data Quality Assessment"                             -> "pattern"
    [] title = "Time Series Analysis Potential"                      -> "trend"
    [] OTHER                                                         -> "recommendation"

FallbackInsight(title) ==
  [type |-> FallbackType(title), title |-> title, confidence |-> FallbackConfidence(title)]

(* The list generateFallbackInsights returns, or that it throws *)
FallbackEntries(fallback) ==
  IF fallback.threw
  THEN [pc |-> "rejected", result |-> [kind |-> "none", list |-> <<>>]]
  ELSE [pc |-> "resolved",
        result |-> [kind |-> "fallback",
                    list |-> [i \in 1..Len(fallback.list) |-> FallbackInsight(fallback.list[i])]]]

(* Column lists of every mix of types *)
MaxColumns == 3

TypedColumns ==
  UNION {{[i \in 1..n |-> [name |-> ToString(i), type |-> types[i]]] : types \in [1..n -> ColumnTypes]}
         : n \in 0..MaxColumns}

InitFallback ==
  /\ data \in {<<>>, OfNumbers(<<1, 2, 3, 4, 5>>)}
  /\ given = data
  /\ op = "none"
  /\ now = 0
  /\ columns \in TypedColumns
  /\ quality = NoQuality
  /\ info = NoInfo
  /\ outlierInfo = <<>>
  /\ correlations = <<>>
  /\ trend = NoCall
  /\ insights = NoInsights
  /\ analysis = NoAnalysis
  /\ again = NoRun
  /\ store = NoStore
  /\ \E dataIsNull, columnsAreNull \in BOOLEAN :
        ai = [Idle EXCEPT !.dataIsNull = dataIsNull, !.columnsAreNull = columnsAreNull]

(* generateFallbackInsights(data, columns, datasetInfo) *)
GenerateFallbackInsights ==
  /\ op = "none"
  /\ op' = "generateFallbackInsights"
  /\ ai' = [ai EXCEPT
              !.pc = FallbackEntries(generateFallbackInsights(ai.dataIsNull, ai.columnsAreNull,
                                                              columns)).pc,
              !.result = FallbackEntries(generateFallbackInsights(ai.dataIsNull, ai.columnsAreNull,
                                                                  columns)).result]
  /\ UNCHANGED <<data, given, now, columns, quality, info, outlierInfo, correlations,
                 trend, insights, analysis, again, store>>

NextFallback == GenerateFallbackInsights

SpecFallback == InitFallback /\ [][NextFallback]_vars

FallbackList == ai.result.list

HasTitle(title) == \E k \in 1..Len(FallbackList) : FallbackList[k].title = title

HasType(type) == \E k \in 1..Len(columns) : columns[k].type = type

(* The entries pushed before the general recommendation *)
PushedBefore ==
  {k \in 1..Len(FallbackList) : FallbackList[k].title /= "Data Exploration Recommendation"}

(* C26: for data and columns that are not null the fallback list has 3 to  *)
(* 5 entries: the overview and the quality entry always, one entry each    *)
(* for numeric, categorical and datetime columns that are present, and the *)
(* general exploration entry exactly when fewer than 3 entries came before *)
(* it; every confidence is a constant between 0 and 1.                     *)
C26_FallbackEntries ==
  (op = "generateFallbackInsights" /\ ~ai.dataIsNull /\ ~ai.columnsAreNull) =>
    /\ ai.pc = "resolved"
    /\ Len(FallbackList) \in 3..5
    /\ FallbackList[1].title = "Dataset Overview"
    /\ FallbackList[2].title = "Data Quality Assessment"
    /\ HasTitle("Statistical Analysis Opportunities") <=> HasType("numeric")
    /\ HasTitle("Categorical Data Insights") <=> HasType("categorical")
    /\ HasTitle("Time Series Analysis Potential") <=> HasType("datetime")
    /\ HasTitle("Data Exploration Recommendation") <=> Cardinality(PushedBefore) < 3
    /\ \A j, k \in 1..Len(FallbackList) :
         FallbackList[j].title = FallbackList[k].title => j = k
    /\ \A k \in 1..Len(FallbackList) :
         /\ FallbackList[k].confidence \in 0..100
         /\ FallbackList[k].title \in
              { "Dataset Overview", "Data Quality Assessment",
                "Statistical Analysis Opportunities", "Categorical Data Insights",
                "Time Series Analysis Potential", "Data Exploration Recommendation" }

(* Columns of all three kinds: five entries and no general recommendation *)
C26_Witness ==
  /\ op = "generateFallbackInsights"
  /\ ~ai.dataIsNull /\ ~ai.columnsAreNull
  /\ Len(FallbackList) = 5
  /\ ~HasTitle("Data Exploration Recommendation")

----------------------------------------------------------------------------
(* services/geminiAI: GeminiAIService.chatWithAI and the chat history.     *)
(* The repository holds two builds of the class: the one of                *)
(* services/geminiAI.ts and the one with input validation and a fallback   *)
(* answer.  Several calls may be under way at once: each runs up to its    *)
(* await and resumes when the request settles.                             *)

MaxCalls == 2

Callers == 1..MaxCalls

Messages == {"q1", "q2"}

Builds == {"plain", "validating"}

HistoryEntry(role, message) == [role |-> role, about |-> message]

NoChat == [pc |-> "idle", message |-> ""]

(* The arguments of a call: "valid", a message that is empty, or data that *)
(* is null                                                                 *)
ChatInputs == {"valid", "empty message", "null data"}

InitChat ==
  /\ data = <<>>
  /\ given = data
  /\ op = "none"
  /\ now = 0
  /\ columns = <<>>
  /\ quality = NoQuality
  /\ info = NoInfo
  /\ outlierInfo = <<>>
  /\ correlations = <<>>
  /\ trend = NoCall
  /\ insights = NoInsights
  /\ analysis = NoAnalysis
  /\ again = NoRun
  /\ store = NoStore
  /\ \E build \in Builds : \E configured \in BOOLEAN :
        ai = [ build |-> build, configured |-> configured, chatHistory |-> <<>>,
               calls |-> [k \in Callers |-> NoChat] ]

(* chatWithAI of the validating build up to its await: a call with invalid *)
(* arguments throws before it touches the history; without a model the     *)
(* fallback answer is pushed at once                                       *)
ChatValidating(service, k, message, inputs) ==
  IF inputs /= "valid"
  THEN [service EXCEPT !.calls[k] = [pc |-> "rejected", message |-> message]]
  ELSE IF service.configured
  THEN [service EXCEPT !.chatHistory = @ \o <<HistoryEntry("user", message)>>,
                       !.calls[k] = [pc |-> "awaiting", message |-> message]]
  ELSE [service EXCEPT !.chatHistory = @ \o <<HistoryEntry("user", message),
                                              HistoryEntry("assistant", message)>>,
                       !.calls[k] = [pc |-> "resolved", message |-> message]]

(* chatWithAI of services/geminiAI.ts up to its await: without a key it    *)
(* returns a notice; data.length throws inside the try block for data that *)
(* is null, after the user message was pushed                              *)
ChatPlain(service, k, message, inputs) ==
  IF ~service.configured
  THEN [service EXCEPT !.calls[k] = [pc |-> "resolved", message |-> message]]
  ELSE IF inputs = "null data"
  THEN [service EXCEPT !.chatHistory = @ \o <<HistoryEntry("user", message)>>,
                       !.calls[k] = [pc |-> "resolved", message |-> message]]
  ELSE [service EXCEPT !.chatHistory = @ \o <<HistoryEntry("user", message)>>,
                       !.calls[k] = [pc |-> "awaiting", message |-> message]]

(* The continuation after the await.  The validating build pushes the      *)
(* answer, or the apology of its catch block; the plain build pushes the   *)
(* answer and returns its apology without pushing it                       *)
ChatResumed(service, k, outcome) ==
  IF service.build = "plain" /\ outcome = "fails"
  THEN [service EXCEPT !.calls[k].pc = "resolved"]
  ELSE [service EXCEPT !.chatHistory = @ \o <<HistoryEntry("assistant", service.calls[k].message)>>,
                       !.calls[k].pc = "resolved"]

ChatWithAI ==
  /\ \E k \in Callers : \E message \in Messages : \E inputs \in ChatInputs :
       /\ ai.calls[k].pc = "idle"
       /\ ai' = IF ai.build = "plain" THEN ChatPlain(ai, k, message, inputs)
                ELSE ChatValidating(ai, k, message, inputs)
  /\ op' = "chatWithAI"
  /\ UNCHANGED <<data, given, now, columns, quality, info, outlierInfo, correlations,
                 trend, insights, analysis, again, store>>

(* The request of a call settles, with an answer or a failure, and the     *)
(* call resumes                                                            *)
ChatSettles ==
  /\ \E k \in Callers : \E outcome \in {"answers", "fails"} :
       /\ ai.calls[k].pc = "awaiting"
       /\ ai' = ChatResumed(ai, k, outcome)
  /\ UNCHANGED <<data, given, op, now, columns, quality, info, outlierInfo, correlations,
                 trend, insights, analysis, again, store>>

NextChat == ChatWithAI \/ ChatSettles

SpecChat == InitChat /\ [][NextChat]_vars

NoCallInFlight == \A k \in Callers : ai.calls[k].pc /= "awaiting"

(* Every user message is directly followed by the reply to it *)
Paired(history) ==
  /\ Len(history) % 2 = 0
  /\ \A i \in 1..Len(history) :
       IF i % 2 = 1
       THEN history[i].role = "user" /\ history[i + 1].about = history[i].about
       ELSE history[i].role = "assistant"

(* C27: whenever no chatWithAI call is under way the chat history is a     *)
(* sequence of (user, assistant) pairs, each user message directly         *)
(* followed by the reply to it, also after a failed request and after      *)
(* overlapping calls; a call rejected for invalid input leaves the history *)
(* as it was.                                                              *)
C27_HistoryPaired ==
  /\ [](NoCallInFlight => Paired(ai.chatHistory))
  /\ [][(\E k \in Callers : ai.calls[k].pc /= "rejected" /\ ai'.calls[k].pc = "rejected")
          => ai'.chatHistory = ai.chatHistory]_vars

----------------------------------------------------------------------------
(* components/FileUpload: the drop zone and handleUpload; store/dataSlice  *)

(* The extensions of the accept option of useDropzone *)
AcceptedExtensions == {".csv", ".xlsx", ".xls", ".tsv"}

(* The file processFile was called with came through the drop zone *)
FromDropZone ==
  \E file \in FileNames : file.ext \in AcceptedExtensions /\ info.fileName = file.base \o file.ext

(* C30: every extension the drop zone accepts (.csv, .xlsx, .xls, .tsv) is *)
(* one processFile parses into records and does not reject as unsupported. *)
C30_AcceptedIsParsed ==
  (op = "processFile" /\ FromDropZone) => info.settled = "resolved"

(* The slice after each reducer, as every subscriber of the store sees it  *)
NullData == [null |-> TRUE, rows |-> <<>>]

NullInfo == [null |-> TRUE, info |-> NoInfo]

NullError == [null |-> TRUE, message |-> ""]

setLoading(state, payload) == [state EXCEPT !.isLoading = payload]

setError(state, payload) == [state EXCEPT !.error = payload]

setRawData(state, payload) == [state EXCEPT !.rawData = [null |-> FALSE, rows |-> payload]]

setDatasetInfo(state, payload) == [state EXCEPT !.datasetInfo = [null |-> FALSE, info |-> payload]]

clearData(state) ==
  [state EXCEPT !.rawData = NullData, !.datasetInfo = NullInfo, !.error = NullError]

(* The run ends without the finally block *)
LeaveLoading(state) == [state EXCEPT !.pc = "done"]

(* finally { dispatch(setLoading(false)) } *)
Finally(state) == [setLoading(state, FALSE) EXCEPT !.pc = "done"]

MaxUploads == 2

(* What the parsers read from the files that are uploaded *)
UploadTables ==
  { <<>>, OfNumbers(<<1, 2, 3, 4, 5>>), OfPairs(Nums(<<1, 2, 3, 4, 5>>), Nums(<<2, 4, 6, 8, 10>>)) }

InitStore ==
  /\ data = <<>>
  /\ given = data
  /\ op = "none"
  /\ now = 0
  /\ columns = <<>>
  /\ quality = NoQuality
  /\ info = NoInfo
  /\ outlierInfo = <<>>
  /\ correlations = <<>>
  /\ trend = NoCall
  /\ insights = NoInsights
  /\ analysis = NoAnalysis
  /\ again = NoRun
  /\ ai = Idle
  /\ store = NoStore

(* handleUpload up to its await: the button is disabled while an upload is *)
(* under way                                                               *)
HandleUpload ==
  /\ store.pc \in {"idle", "done"}
  /\ store.uploads < MaxUploads
  /\ \E file \in FileNames : \E parsed \in UploadTables :
       store' = [setLoading(store, TRUE) EXCEPT
                   !.uploadStatus = "uploading",
                   !.pc = "processing",
                   !.settled = processFile(file, parsed),
                   !.uploads = @ + 1]
  /\ op' = "handleUpload"
  /\ UNCHANGED <<data, given, now, columns, quality, info, outlierInfo, correlations,
                 trend, insights, analysis, again, ai>>

(* processFile resolved: dispatch(setRawData(data)) *)
DispatchRawData ==
  /\ store.pc = "processing"
  /\ store.settled.settled = "resolved"
  /\ store' = [setRawData(store, store.settled.data) EXCEPT
                 !.pc = "rawData set",
                 !.before = [rawData |-> store.rawData, datasetInfo |-> store.datasetInfo]]
  /\ UNCHANGED <<data, given, op, now, columns, quality, info, outlierInfo, correlations,
                 trend, insights, analysis, again, ai>>

(* dispatch(setDatasetInfo(info)) *)
DispatchDatasetInfo ==
  /\ store.pc = "rawData set"
  /\ store' = [setDatasetInfo(store, store.settled) EXCEPT !.pc = "datasetInfo set"]
  /\ UNCHANGED <<data, given, op, now, columns, quality, info, outlierInfo, correlations,
                 trend, insights, analysis, again, ai>>

(* dispatch(setError(null)); setUploadStatus('success') *)
DispatchNoError ==
  /\ store.pc = "datasetInfo set"
  /\ store' = [setError(store, NullError) EXCEPT !.uploadStatus = "success", !.pc = "finally"]
  /\ UNCHANGED <<data, given, op, now, columns, quality, info, outlierInfo, correlations,
                 trend, insights, analysis, again, ai>>

(* processFile rejected: setUploadStatus('error'); dispatch(setError(...)) *)
CatchUploadError ==
  /\ store.pc = "processing"
  /\ store.settled.settled = "rejected"
  /\ store' = [setError(store, [null |-> FALSE, message |-> "Unsupported file format"]) EXCEPT
                 !.uploadStatus = "error",
                 !.pc = "finally",
                 !.before = [rawData |-> store.rawData, datasetInfo |-> store.datasetInfo]]
  /\ UNCHANGED <<data, given, op, now, columns, quality, info, outlierInfo, correlations,
                 trend, insights, analysis, again, ai>>

UploadEnds ==
  /\ store.pc = "finally"
  /\ store' = Finally(store)
  /\ UNCHANGED <<data, given, op, now, columns, quality, info, outlierInfo, correlations,
                 trend, insights, analysis, again, ai>>

(* dispatch(clearData()), between uploads or while a file is processed *)
ClearData ==
  /\ store.pc \in {"idle", "done", "processing"}
  /\ ~store.rawData.null \/ ~store.error.null
  /\ store' = [clearData(store) EXCEPT !.pc = IF @ = "done" THEN "idle" ELSE @]
  /\ UNCHANGED <<data, given, op, now, columns, quality, info, outlierInfo, correlations,
                 trend, insights, analysis, again, ai>>

NextStore ==
  \/ HandleUpload \/ DispatchRawData \/ DispatchDatasetInfo \/ DispatchNoError
  \/ CatchUploadError \/ UploadEnds \/ ClearData

SpecStore == InitStore /\ [][NextStore]_vars

(* C28: in every state of the data store, over any sequence of uploads and *)
(* clearData, a datasetInfo that is not null describes the current         *)
(* rawData: datasetInfo.data is the record sequence rawData.               *)
C28_InfoDescribesData ==
  ~store.datasetInfo.null =>
    /\ ~store.rawData.null
    /\ store.datasetInfo.info.data = store.rawData.rows

(* C29: a run of handleUpload has isLoading true while the file is         *)
(* processed and false when it ends; after a rejection uploadStatus is     *)
(* error, the error of the store is not null and rawData and datasetInfo   *)
(* are what they were; after a resolution the error is null and            *)
(* uploadStatus is success.                                                *)
C29_UploadOutcome ==
  /\ store.pc = "processing" => store.isLoading
  /\ store.pc = "done" =>
       /\ ~store.isLoading
       /\ store.settled.settled = "rejected" =>
            /\ store.uploadStatus = "error"
            /\ ~store.error.null
            /\ store.rawData = store.before.rawData
            /\ store.datasetInfo = store.before.datasetInfo
       /\ store.settled.settled = "resolved" =>
            /\ store.uploadStatus = "success"
            /\ store.error.null

(* A rejected upload after a successful one: the first dataset stays *)
C29_Witness ==
  /\ store.pc = "done"
  /\ store.uploads = 2
  /\ store.settled.settled = "rejected"
  /\ ~store.rawData.null
  /\ store.rawData.rows /= <<>>

====
